---------------------------- MODULE Spec2Model ----------------------------
(***************************************************************************)
(* OpenHQM request pipeline: ingress (POST /submit), the request queue,    *)
(* the worker's per-message handler with its retry / DLQ / FAILED paths,   *)
(* the processor's mapping of upstream events to results and exceptions,   *)
(* the state store keys req:{cid}:meta and resp:{cid}, the query handlers  *)
(* (GET /status, GET /response) that read them, and the partition managers *)
(* that decide which worker owns a message.                                *)
(*                                                                         *)
(* Every await on the state store or on the queue is a suspension point,   *)
(* so each such call is one step of the handler it belongs to.             *)
(***************************************************************************)
EXTENDS Integers, Sequences, FiniteSets, TLC

\* ------------------------------------------------------------------ bounds
NumCids == 1
NumWorkers == 1
\* at most this many store / queue calls fail in one run
MaxFaults == 1

CIDs == 1..NumCids
Workers == 1..NumWorkers

\* partition_count ranges over 1..MaxPartitions
MaxPartitions == 4
\* the deployment has between 1 and MaxWorkerCount workers
MaxWorkerCount == 2
\* the millisecond clock runs from 0 to MaxClock
MaxClock == 2
\* a routing configuration holds at most MaxRoutes routes
MaxRoutes == 2
\* the request stream holds MaxStream messages when a worker starts
MaxStream == 2
\* at most MaxHandlers calls of _handle_message run at once on one Worker
MaxHandlers == 2

\* ------------------------------------------------------- program constants
\* settings.worker.max_retries
MaxRetries == 3

\* every request carries its own payload, named after the request
PayloadOf(c) == c

\* metadata.retry_count values a client may send (ge=0 is the valid range,
\* the default is 0)
ClientRetryCounts == {-1, 0, MaxRetries + 1}

\* metadata.priority values a client may send (ge=0, le=9 is the valid range)
Priorities == {-1, 0, 9, 10}

\* session and partition keys a client may put into metadata ("none": absent)
SessionIds == {"none", "sess-X"}
PartitionKeys == {"none", "key-X"}

\* the metadata object of a POST /submit body, as the client sent it
ClientMetadata ==
    [priority : Priorities, retry_count : ClientRetryCounts,
     session_id : SessionIds, partition_key : PartitionKeys]

NoReq == [priority |-> 0, retry_count |-> 0, session_id |-> "none",
          partition_key |-> "none"]

\* the fields RequestMetadata declares
RequestMetadataFields ==
    {"priority", "timeout", "retry_count", "endpoint", "method"}

\* (variant: the upper bound is off by one)
ValidPriorityUpTo10(p) == 0 <= p /\ p <= 10

\* RequestMetadata field constraint: priority ge=0, le=9
ValidPriority(p) == 0 <= p /\ p <= 9

\* (variant: retry_count is not validated)
ValidRetryCountAny(rc) == TRUE

\* RequestMetadata field constraint: retry_count ge=0
ValidRetryCount(rc) == 0 <= rc

\* request.metadata.model_dump(): the declared fields; a key the model does
\* not declare was dropped when the body was parsed
ModelDump(md, f) == IF f \in RequestMetadataFields THEN md[f] ELSE "none"

\* queue.type: the Redis Streams driver and a driver written to the
\* MessageQueueInterface contract (gcp_pubsub; azure_eventhubs and mqtt
\* behave the same way in publish and in what they hand to the handler)
Drivers == {"redis", "gcp_pubsub"}

\* ------------------------------------------------------------- exceptions
\* direct superclass of each exception class
Superclass(e) ==
    CASE e = "RetryableError"     -> "ProcessingError"
      [] e = "FatalError"         -> "ProcessingError"
      [] e = "ProcessingError"    -> "OpenHQMError"
      [] e = "ConfigurationError" -> "OpenHQMError"
      [] e = "QueueError"         -> "OpenHQMError"
      [] e = "OpenHQMError"       -> "Exception"
      [] e = "ValueError"         -> "Exception"
      [] e = "AttributeError"     -> "Exception"
      [] OTHER                    -> "Exception"

RECURSIVE IsInstance(_, _)
IsInstance(e, cls) ==
    IF e = cls THEN TRUE
    ELSE IF e = "Exception" THEN FALSE
    ELSE IsInstance(Superclass(e), cls)

\* which except clause of Worker._handle_message catches e
ExceptClause(e) ==
    IF IsInstance(e, "RetryableError") THEN "retryable"
    ELSE IF IsInstance(e, "FatalError") THEN "fatal"
    ELSE "unexpected"

\* -------------------------------------------------------------- processor
\* what can happen when the worker calls processor.process: the upstream
\* answers (any HTTP status), the HTTP client fails, the call times out, no
\* endpoint is configured, or an injected processor raises RetryableError /
\* FatalError
UpstreamEvents == {"http_200", "http_500", "client_error", "timeout",
                   "no_endpoint", "raise_retryable", "raise_fatal"}

NetworkEvents == {"client_error", "timeout"}

Returned(code) == [kind |-> "return", status_code |-> code, exc |-> "none"]
Raised(e) == [kind |-> "raise", status_code |-> 0, exc |-> e]

\* MessageProcessor.process
ProcessorProcess(ev) ==
    CASE ev = "http_200"        -> Returned(200)
      [] ev = "http_500"        -> Returned(500)
      [] ev = "client_error"    -> Raised("ProcessingError")
      [] ev = "timeout"         -> Raised("ProcessingError")
      [] ev = "no_endpoint"     -> Raised("ConfigurationError")
      [] ev = "raise_retryable" -> Raised("RetryableError")
      [] ev = "raise_fatal"     -> Raised("FatalError")
      \* the partition manager refused the message: "Message assigned to
      \* different partition"
      [] ev = "partition_skip"  -> Raised("ProcessingError")

\* ---------------------------------------------------- state store, queues
\* RedisCache.set swallows every redis error and returns False
CacheSetOutcomes == {"ok", "false"}

\* the outcomes a call can have while n calls have already failed
Within(outcomes, n) == IF n < MaxFaults THEN outcomes ELSE {"ok"}

\* (variant: RedisQueue.publish lets the error out as QueueError)
PublishOutcomesRaising(d) == {"ok", "raise"}

\* RedisQueue.publish returns False on failure; the other drivers raise
\* QueueError, as MessageQueueInterface.publish documents
PublishOutcomes(d) ==
    IF d = "redis" THEN {"ok", "false"} ELSE {"ok", "raise"}

\* RedisQueue.consume hands the handler the decoded dict; the other drivers
\* hand it a QueueMessage dataclass, which has no .get
DeliversDict(d) == d = "redis"

NoState == [status |-> "none", submitted_at |-> FALSE]
NoResp == [fields |-> {}, status_code |-> 0]
NoMsg == [correlation_id |-> 0, payload |-> 0, retry_count |-> 0,
          session_id |-> "none", partition_key |-> "none",
          has_metadata |-> TRUE]

\* the RequestState written by submit_request
PendingState == [status |-> "PENDING", submitted_at |-> TRUE]

\* the RequestState the worker writes on dequeue
ProcessingState == [status |-> "PROCESSING", submitted_at |-> TRUE]

\* the RequestState the worker writes after processor.process returned
CompletedState == [status |-> "COMPLETED", submitted_at |-> TRUE]

\* the RequestState written by _mark_failed (no submitted_at)
FailedState == [status |-> "FAILED", submitted_at |-> FALSE]

\* (variant: the record is stored without the upstream headers)
ResultRecordNoHeaders(code) ==
    [fields |-> {"result", "status_code", "processing_time_ms",
                 "completed_at"},
     status_code |-> code]

\* the ResponseRecord stored after processor.process returned
ResultRecord(code) ==
    [fields |-> {"result", "status_code", "headers", "processing_time_ms",
                 "completed_at"},
     status_code |-> code]

\* (variant: _mark_failed also stores a status_code)
ErrorRecordWithStatus ==
    [fields |-> {"error", "status_code", "completed_at"}, status_code |-> 500]

\* the ResponseRecord stored by _mark_failed
ErrorRecord == [fields |-> {"error", "completed_at"}, status_code |-> 0]

\* RedisCache.get swallows every redis error and returns None
CacheGetOutcomes == {"ok", "none"}

\* the body and HTTP status of an answer of GET /response/{cid}; seen_meta
\* and seen_resp are what the store held when the handler read it
NoAnswer ==
    [http |-> 0, status |-> "none", result |-> FALSE, status_code |-> 0,
     headers |-> FALSE, error |-> "none", completed_at |-> FALSE,
     seen_meta |-> NoState, seen_resp |-> NoResp, read_failed |-> FALSE]

\* the body and HTTP status of an answer of GET /status/{cid}
NoStatusAnswer ==
    [http |-> 0, status |-> "none", submitted_at |-> FALSE,
     updated_at |-> FALSE, seen_meta |-> NoState, read_failed |-> FALSE]

\* ----------------------------------------------------------- partitioning
\* PartitionStrategy
Strategies == {"hash", "key", "round_robin", "sticky"}

\* PartitionConfig: enabled, strategy, partition_count (ge=1)
PartitionConfigs ==
    [enabled : BOOLEAN, strategy : Strategies,
     partition_count : 1..MaxPartitions]

\* the defaults of PartitionConfig
DefaultPartitionConfig ==
    [enabled |-> FALSE, strategy |-> "sticky", partition_count |-> 10]

\* session ids the partition manager may come to track
TrackedSessionIds == {"sess-X", "sess-Y"}

\* PartitionConfig.sticky_session_ttl, in ticks of the clock (ge=0; 0 means
\* no expiration)
StickySessionTtls == {0, 1}

\* a partitioned configuration with its sticky_session_ttl
SessionConfigs ==
    [enabled : {TRUE}, strategy : {"sticky"},
     partition_count : {MaxPartitions},
     sticky_session_ttl : StickySessionTtls]

\* no SessionInfo for the session
NotTracked == -1

\* cleanup_expired_sessions: with a ttl other than 0, every entry with
\* now - last_seen > ttl is deleted
CleanupExpiredSessions(cfg, last_seen, now) ==
    IF cfg.sticky_session_ttl = 0 THEN last_seen
    ELSE [s \in DOMAIN last_seen |->
            IF last_seen[s] # NotTracked
               /\ now - last_seen[s] > cfg.sticky_session_ttl
            THEN NotTracked ELSE last_seen[s]]

\* worker_index values (0-based)
WorkerIndexes == 0..(MaxWorkerCount - 1)

\* what a message holds at partition_key_field and at session_key_field:
\* "none" stands for a missing field, "" is the empty string
MessagePartitionKeys == {"none", "key-B"}
MessageSessionIds == {"none", "", "sess-X", "sess-Y"}
PartitionMessages ==
    [partition_key : MessagePartitionKeys, session_id : MessageSessionIds]

NoCall == [key |-> "none", partition |-> -1]
NoAccept == [session_id |-> "none", has_key |-> FALSE, worker_index |-> -1]

\* "if not partition_key": None and the empty string count as missing
Truthy(k) == k \notin {"none", ""}

\* _hash_key: int(sha256(key).hexdigest(), 16), kept modulo 840, which
\* leaves its residue modulo every partition_count from 1 to 8 as it is
HashKey(k) ==
    CASE k = "sess-X" -> 147
      [] k = "sess-Y" -> 122
      [] k = "key-B"  -> 732
      [] k = ""       -> 589

\* (variant: every strategy takes the partition from the clock)
AssignPartitionByClock(cfg, key, now) == now % cfg.partition_count

\* _assign_partition
AssignPartition(cfg, key, now) ==
    IF cfg.strategy = "round_robin"
    THEN now % cfg.partition_count
    ELSE HashKey(key) % cfg.partition_count

\* (variant: the partition is taken modulo one worker too many)
AssignedWorkerIndexOffByOne(p, W) == p % (W + 1)

\* assign_worker_partitions: assigned_worker_index = partition_id % worker_count
AssignedWorkerIndex(p, W) == p % W

\* get_partition_for_message, up to the key it hands to _assign_partition:
\* the partition key, or the session id when there is none
PartitionKeyOf(m) ==
    IF Truthy(m.partition_key) THEN m.partition_key ELSE m.session_id

\* get_partition_for_message; -1 stands for None
GetPartitionForMessage(cfg, m, now) ==
    IF ~cfg.enabled THEN -1
    ELSE IF ~Truthy(PartitionKeyOf(m)) THEN -1
    ELSE AssignPartition(cfg, PartitionKeyOf(m), now)

\* (variant: the ownership test is left out)
ShouldProcessAlways(cfg, owned, m, now) == TRUE

\* should_process_message
ShouldProcess(cfg, owned, m, now) ==
    IF ~cfg.enabled THEN TRUE
    ELSE IF GetPartitionForMessage(cfg, m, now) = -1 THEN TRUE
    ELSE GetPartitionForMessage(cfg, m, now) \in owned

\* the worker_id argument of MessageProcessor.__init__ ("none": not given)
ProcessorWorkerIds == {"none", "worker-1"}

\* run_worker builds the processor with MessageProcessor(): no worker_id
RunWorkerProcessorId == "none"

\* MessageProcessor.__init__: the partition manager is created only when
\* partitioning is enabled and a worker_id was given
HasPartitionManager(cfg, wid) == cfg.enabled /\ wid # "none"

\* ---------------------------------------------------------------- routing
\* Route.priority values (0 is the default)
RoutePriorities == {0, 1, 10}

\* what a message holds at "metadata.type" ("none": the field is absent)
MessageTypes == {"none", "user", "user.admin", "order"}

\* Route, the fields route selection reads; "none" stands for None
Routes ==
    [priority : RoutePriorities, enabled : BOOLEAN, is_default : BOOLEAN,
     match_field : {"none", "metadata.type"},
     match_value : {"none", "user"},
     match_pattern : {"none", "^user"}]

\* the criteria a configuration file is written with: a default route, a
\* route without criteria, a field alone, a value match, a pattern match
RouteShapes ==
    {r \in Routes :
        \/ r.is_default /\ r.match_field = "none" /\ r.match_value = "none"
              /\ r.match_pattern = "none"
        \/ ~r.is_default /\ r.match_field = "none" /\ r.match_value = "none"
              /\ r.match_pattern = "none"
        \/ ~r.is_default /\ r.match_field # "none"
              /\ (r.match_value = "none" \/ r.match_pattern = "none")}

RECURSIVE SeqsUpTo(_, _)
SeqsUpTo(S, n) ==
    IF n = 0 THEN {<<>>}
    ELSE SeqsUpTo(S, n - 1) \cup
         {Append(q, x) : q \in {t \in SeqsUpTo(S, n - 1) : Len(t) = n - 1},
                         x \in S}

\* RouteConfig: routes, default_endpoint, enable_fallback
RouteConfigs ==
    [routes : SeqsUpTo(RouteShapes, MaxRoutes),
     default_endpoint : {"none", "fallback-service"},
     enable_fallback : BOOLEAN]

\* the defaults of RouteConfig
DefaultRouteConfig ==
    [routes |-> <<>>, default_endpoint |-> "none", enable_fallback |-> TRUE]

NoRouting == [kind |-> "none", route |-> 0]

\* re.match(pattern, value): the values the pattern matches from the start
ReMatch(pattern, value) ==
    CASE pattern = "^user" -> value \in {"user", "user.admin"}
      [] OTHER             -> FALSE

\* _match_route, on the value the message holds at match_field
MatchRoute(route, value) ==
    IF route.is_default THEN TRUE
    ELSE IF route.match_field = "none" THEN TRUE
    ELSE IF value = "none" THEN FALSE
    ELSE IF route.match_value # "none" THEN value = route.match_value
    ELSE IF route.match_pattern # "none"
    THEN ReMatch(route.match_pattern, value)
    ELSE FALSE

\* the position that sorts first among the positions S: the highest
\* priority, and the earliest position among equal priorities (sorted is
\* stable, also with reverse=True)
SortsFirst(routes, S) ==
    CHOOSE i \in S :
        \A j \in S : \/ routes[i].priority > routes[j].priority
                     \/ routes[i].priority = routes[j].priority /\ i <= j

RECURSIVE SortedFrom(_, _)
SortedFrom(routes, S) ==
    IF S = {} THEN <<>>
    ELSE <<SortsFirst(routes, S)>>
            \o SortedFrom(routes, S \ {SortsFirst(routes, S)})

\* (variant: the enabled routes are kept in configuration order)
RoutesInConfigOrder(routes) ==
    SortedFrom([i \in 1..Len(routes) |-> [routes[i] EXCEPT !.priority = 0]],
               {i \in 1..Len(routes) : routes[i].enabled})

\* RoutingEngine.__init__: _routes_sorted, the enabled routes by priority,
\* highest first, as positions in config.routes
RoutesSorted(routes) ==
    SortedFrom(routes, {i \in 1..Len(routes) : routes[i].enabled})

\* RoutingEngine.route, the selection: the first route of _routes_sorted
\* that matches; without one the fallback endpoint, or ConfigurationError
RouteMessage(cfg, value) ==
    LET sorted == RoutesSorted(cfg.routes)
        hits == {k \in 1..Len(sorted) : MatchRoute(cfg.routes[sorted[k]], value)}
    IN IF hits # {}
       THEN [kind |-> "route",
             route |-> sorted[CHOOSE k \in hits : \A h \in hits : k <= h]]
       ELSE IF cfg.enable_fallback /\ cfg.default_endpoint # "none"
       THEN [kind |-> "fallback", route |-> 0]
       ELSE [kind |-> "raise", route |-> 0]

\* --------------------------------------------------------- outbound method
\* how process came to its endpoint: routing off, a route matched, or no
\* route matched and the engine fell back to default_endpoint
RoutingKinds == {"off", "route", "fallback"}

\* Route.method (None unless the route overrides the method),
\* metadata.method of the request (None unless the client set it) and
\* EndpointConfig.method (default "POST")
RouteMethods == {"none", "GET", "PUT"}
MetadataMethods == {"none", "put", "GET", "DELETE"}
EndpointMethods == {"POST", "GET", "PATCH"}

NoForward == [routing |-> "off", route_method |-> "none",
              metadata_method |-> "none", endpoint_method |-> "POST"]

\* str.upper()
Upper(m) == IF m = "put" THEN "PUT" ELSE m

\* RoutingResult.method: "matched_route.method or 'POST'" for a matched
\* route, the field's default "POST" for the fallback result
RoutingResultMethod(kind, route_method) ==
    IF kind = "route" /\ route_method # "none" THEN route_method ELSE "POST"

\* the method process goes on with: routing_result.method when the routing
\* engine is in use, metadata.get("method") otherwise
ProcessMethod(in) ==
    IF in.routing = "off" THEN in.metadata_method
    ELSE RoutingResultMethod(in.routing, in.route_method)

\* (method or endpoint_config.method or "POST").upper()
HttpMethod(in) ==
    Upper(IF ProcessMethod(in) # "none" THEN ProcessMethod(in)
          ELSE in.endpoint_method)

\* ----------------------------------------------------------- queue drivers
\* the drivers whose consume loop is in the repository
QueueDrivers == {"redis", "gcp_pubsub", "azure_eventhubs", "mqtt"}

\* MQTTQueue.qos: 0 (no protocol acknowledgement) or 1
MqttQos == {0, 1}
DefaultQos == 1

\* the messages on the queue a driver consumes, in stream order
Msgs == 1..MaxStream

NoReject == [id |-> 0, requeue |-> TRUE]

\* consume awaits the handler before it takes the next message: Redis
\* (nested for loops), Event Hubs (on_event, one partition) and MQTT
\* (async for); the Pub/Sub callback hands the handler to a task
AwaitsHandler(d) == d # "gcp_pubsub"

\* what taking a message off the queue does: the handler is awaited, or
\* (Pub/Sub callback) asyncio.create_task starts it, or create_task raises
\* because the callback runs outside the event loop and the except clause
\* nacks the message
CallbackOutcomes(d) ==
    IF d = "gcp_pubsub" THEN {"task", "nack"} ELSE {"await"}

\* the handler returned: XACK, ack(), update_checkpoint, or (MQTT)
\* acknowledge only "if self.qos > 0"
OnHandlerReturn(d, qos) ==
    IF d = "mqtt" /\ qos = 0 THEN "pending" ELSE "acked"

\* the handler raised: Pub/Sub nacks, so the service delivers the message
\* again; the other drivers log the error and leave the message as it is
\* (Redis: in the pending list, which ">" never reads; Event Hubs: without
\* a checkpoint; MQTT: in _pending_messages)
OnHandlerRaise(d) == IF d = "gcp_pubsub" THEN "ready" ELSE "pending"

\* update_checkpoint(event) moves the partition's checkpoint to the event:
\* every earlier event of the partition is behind it as well
Checkpoints(d, k, m) == d = "azure_eventhubs" /\ k < m

\* reject: MQTT deletes the entry of _pending_messages, the other drivers
\* log (or do nothing) and return True; no driver publishes anything
OnReject(d, st) == IF d = "mqtt" /\ st = "pending" THEN "dropped" ELSE st

\* -------------------------------------------------------- worker lifecycle
\* the calls of Worker._handle_message that run as tasks of one event loop:
\* call h handles the message with correlation id h
Handlers == 1..MaxHandlers

\* who awaits Worker.shutdown(): the finally block of start(), or another
\* task of the process that calls it while the worker is consuming
ShutdownCallers == {"start", "caller"}

\* shutdown waits in "for _ in range(30)", one asyncio.sleep(1) per round
ShutdownWaitSeconds == 30

\* (variant: the loop makes one round more)
WaitOverOneLate(slept, current) ==
    current = 0 \/ slept >= ShutdownWaitSeconds + 1

\* shutdown, the wait for the current message: it is over when
\* current_message is None (on entry or at the top of a round) or when the
\* rounds are used up
WaitOver(slept, current) == current = 0 \/ slept >= ShutdownWaitSeconds

\* settings.worker.retry_delay_base and retry_delay_max, in seconds
RetryDelayBase == 1
RetryDelayMax == 60

\* the retry path calls publish("requests", message): no delay_seconds is
\* passed, the settings above are not read, and the drivers make a message
\* available as soon as it is published
RepublishDelay(retry_count) == 0

\* the top-level keys of a message on the request queue: submit_request
\* builds it with all five, another producer may leave metadata out
MessageKeys(m) ==
    {"correlation_id", "payload", "headers", "timestamp"}
    \cup (IF m.has_metadata THEN {"metadata"} ELSE {})

\* the keys of the message process works on: the worker calls
\* process(message["payload"], metadata=..., headers=...) without
\* full_message, so process builds {"payload": ..., "metadata": ...} itself
ProcessorFullMessage(m) == {"payload", "metadata"}

NoLog == [meta_writes |-> <<>>, resp_writes |-> 0, pub_requests |-> 0,
          pub_responses |-> 0, pub_dlq |-> 0, fault |-> FALSE,
          rc_in |-> 0, republished |-> NoMsg, delay |-> -1,
          full_message |-> {}]

VARIABLES
    driver,          \* settings.queue.type
    meta,            \* state store: req:{cid}:meta
    resp,            \* state store: resp:{cid}
    requests,        \* request queue (stream), oldest first
    responses,       \* response queue
    dlq,             \* dead letter queue
    pel,             \* Redis pending entries: delivered, never acknowledged
    api_pc,          \* submit_request position, per correlation id
    api_msg,         \* the message built by submit_request
    api_req,         \* the metadata of the request body submit received
    api_resp,        \* HTTP status answered by submit (0: none yet)
    pending_stored,  \* the PENDING write took effect
    enqueued,        \* the request publish took effect
    w_pc,            \* _handle_message position, per worker
    w_msg,           \* the message being handled
    w_ev,            \* what processor.process met
    w_clause,        \* "none", "success" or the except clause taken
    w_err,           \* the exception caught
    current_message, \* Worker.current_message
    w_log,           \* effects of the current handling
    attempts,        \* per correlation id: calls of processor.process
    all500,          \* per correlation id: every attempt met HTTP 500
    ended,           \* per correlation id: how the last attempt went
    republished,     \* per correlation id: requeues that took effect
    fault,           \* per correlation id: a store or queue call failed
    faults,          \* store / queue calls that failed so far
    q_pc,            \* get_response position, per correlation id
    q_meta,          \* get_response: the RequestState it read
    q_ans,           \* the last answer of GET /response/{cid}
    st_ans,          \* the last answer of GET /status/{cid}
    pm_config,       \* PartitionManager.config (settings.partitioning)
    worker_count,    \* number of workers the partitions are spread over
    worker_partitions, \* PartitionManager._worker_partitions, per worker index
    pm_assigned,     \* assign_worker_partitions was called, per worker index
    now_ms,          \* int(time.time() * 1000)
    pm_last,         \* the last _assign_partition call: key and result
    pm_last_accept,  \* the last message with a session id that was accepted
    processor_worker_id, \* the worker_id MessageProcessor was built with
    rt_config,       \* RoutingEngine.config
    rt_message,      \* the last message routed: its value at metadata.type
    rt_result,       \* what route() did for it
    lc_pc,           \* Worker.start: where the task that runs it stands
    running,         \* Worker.running
    queue_running,   \* RedisQueue._running
    queue_connected, \* the queue's connection is open
    cache_open,      \* the state store's connection is open
    lc_stream,       \* messages waiting on the request stream
    lc_current,      \* Worker.current_message of this worker (0: None)
    signalled,       \* SIGTERM or SIGINT reached the worker
    sd_pc,           \* Worker.shutdown position, per caller
    sd_slept,        \* asyncio.sleep(1) calls made by shutdown, per caller
    mqtt_qos,        \* MQTTQueue.qos
    delivery,        \* per message: where it stands with the driver
    handler_outcome, \* per message: how its last handler call ended
    last_reject,     \* the last reject(message_id, requeue) call
    h_pc,            \* calls of _handle_message awaited together, per call
    fw_in,           \* the last request process forwarded: what decides its method
    fw_out,          \* the HTTP method of the outbound request ("none": none yet)
    sess_last_seen,  \* PartitionManager._sessions: last_seen per session id
    proc_closed      \* MessageProcessor.close was called: the worker has ended

vars == <<driver, meta, resp, requests, responses, dlq, pel, api_pc, api_msg,
          api_req, api_resp, pending_stored, enqueued, w_pc, w_msg, w_ev, w_clause,
          w_err, current_message, w_log, attempts, all500, ended,
          republished, fault, faults, q_pc, q_meta, q_ans, st_ans,
          pm_config, worker_count, worker_partitions, pm_assigned, now_ms,
          pm_last, pm_last_accept, processor_worker_id, rt_config,
          rt_message, rt_result, lc_pc, running, queue_running,
          queue_connected, cache_open, lc_stream, lc_current, signalled,
          sd_pc, sd_slept, mqtt_qos, delivery, handler_outcome,
          last_reject, h_pc, fw_in, fw_out, sess_last_seen, proc_closed>>

q_vars == <<q_pc, q_meta, q_ans, st_ans>>
pm_vars == <<pm_config, worker_count, worker_partitions, pm_assigned, now_ms,
             pm_last, pm_last_accept>>
proc_vars == <<processor_worker_id>>
rt_vars == <<rt_config, rt_message, rt_result>>
lc_vars == <<lc_pc, running, queue_running, queue_connected, cache_open,
             lc_stream, lc_current, signalled, sd_pc, sd_slept>>
cs_vars == <<mqtt_qos, delivery, handler_outcome, last_reject>>
h_vars == <<h_pc>>
fw_vars == <<fw_in, fw_out>>
sess_vars == <<sess_last_seen, proc_closed>>
others == <<proc_vars, rt_vars, lc_vars, cs_vars, h_vars, fw_vars,
            sess_vars>>
aux == <<q_vars, pm_vars, others>>
pipe_vars == <<driver, meta, resp, requests, responses, dlq, pel, api_pc,
               api_msg, api_req, api_resp, pending_stored, enqueued, w_pc,
               w_msg, w_ev, w_clause, w_err, current_message, w_log,
               attempts, all500, ended, republished, fault, faults>>
ghost == <<attempts, all500, ended>>
api_vars == <<api_pc, api_msg, api_req, api_resp, pending_stored, enqueued>>
w_local == <<w_msg, w_ev, w_clause, w_err, current_message>>
queues == <<requests, responses, dlq, pel>>

\* nothing submitted, every handler idle
Quiescent ==
    /\ meta = [c \in CIDs |-> NoState]
    /\ resp = [c \in CIDs |-> NoResp]
    /\ requests = <<>>
    /\ responses = <<>>
    /\ dlq = <<>>
    /\ pel = <<>>
    /\ api_pc = [c \in CIDs |-> "idle"]
    /\ api_msg = [c \in CIDs |-> NoMsg]
    /\ api_req = [c \in CIDs |-> NoReq]
    /\ api_resp = [c \in CIDs |-> 0]
    /\ pending_stored = [c \in CIDs |-> FALSE]
    /\ enqueued = [c \in CIDs |-> FALSE]
    /\ w_pc = [w \in Workers |-> "idle"]
    /\ w_msg = [w \in Workers |-> NoMsg]
    /\ w_ev = [w \in Workers |-> "none"]
    /\ w_clause = [w \in Workers |-> "none"]
    /\ w_err = [w \in Workers |-> "none"]
    /\ current_message = [w \in Workers |-> 0]
    /\ w_log = [w \in Workers |-> NoLog]
    /\ attempts = [c \in CIDs |-> 0]
    /\ all500 = [c \in CIDs |-> TRUE]
    /\ ended = [c \in CIDs |-> "none"]
    /\ republished = [c \in CIDs |-> 0]
    /\ fault = [c \in CIDs |-> FALSE]
    /\ faults = 0
    /\ q_pc = [c \in CIDs |-> "idle"]
    /\ q_meta = [c \in CIDs |-> NoState]
    /\ q_ans = [c \in CIDs |-> NoAnswer]
    /\ st_ans = [c \in CIDs |-> NoStatusAnswer]

\* PartitionManager.__init__: no partition owned yet
ManagersCreated ==
    /\ worker_partitions = [i \in WorkerIndexes |-> {}]
    /\ pm_assigned = [i \in WorkerIndexes |-> FALSE]
    /\ now_ms = 0
    /\ pm_last = NoCall
    /\ pm_last_accept = NoAccept
    /\ sess_last_seen = [s \in TrackedSessionIds |-> NotTracked]
    /\ proc_closed = FALSE

\* RoutingEngine.__init__ on the default RouteConfig; nothing routed yet
EngineCreated(cfg) ==
    /\ rt_config = cfg
    /\ rt_message = "none"
    /\ rt_result = NoRouting
    /\ fw_in = NoForward
    /\ fw_out = "none"

\* Worker.__init__ after create_queue and create_cache connected: not
\* running, no current message, shutdown not called
WorkerCreated(n) ==
    /\ lc_pc = "created"
    /\ running = FALSE
    /\ queue_running = FALSE
    /\ queue_connected = TRUE
    /\ cache_open = TRUE
    /\ lc_stream = n
    /\ lc_current = 0
    /\ signalled = FALSE
    /\ sd_pc = [k \in ShutdownCallers |-> "idle"]
    /\ sd_slept = [k \in ShutdownCallers |-> 0]
    /\ h_pc = [h \in Handlers |-> "idle"]

\* a driver after connect(): nothing consumed, nothing rejected
DriverConnected(qos) ==
    /\ mqtt_qos = qos
    /\ delivery = [m \in Msgs |-> "ready"]
    /\ handler_outcome = [m \in Msgs |-> "none"]
    /\ last_reject = NoReject

\* run_worker: the processor is built by MessageProcessor(), the settings
\* are the defaults
Init ==
    /\ driver \in Drivers
    /\ Quiescent
    /\ pm_config = DefaultPartitionConfig
    /\ worker_count = 1
    /\ ManagersCreated
    /\ processor_worker_id = RunWorkerProcessorId
    /\ EngineCreated(DefaultRouteConfig)
    /\ WorkerCreated(0)
    /\ DriverConnected(DefaultQos)


\* ---------------------------------------------------------------- helpers
\* RedisCache.set: the key is written only when the call succeeds
CacheSet(store, key, value, o) ==
    IF o = "ok" THEN [store EXCEPT ![key] = value] ELSE store

\* a publish that succeeds appends to the stream
Publish(q, m, o) == IF o = "ok" THEN Append(q, m) ELSE q

Failed(o) == o # "ok"

\* the DLQ message: the original message plus worker_id and error
DlqMessage(m, w, err) ==
    [correlation_id |-> m.correlation_id, payload |-> m.payload,
     retry_count |-> m.retry_count, worker_id |-> w, error |-> err]

\* the mirror message published to the response queue
MirrorMessage(m, code) ==
    [correlation_id |-> m.correlation_id, status_code |-> code,
     status |-> "COMPLETED"]

\* ---------------------------------------------------------------- ingress
\* a body whose metadata fails validation is answered 422 by the framework
\* before submit_request is entered
SubmitRejected(c) ==
    /\ api_pc[c] = "idle"
    /\ \A b \in CIDs : b < c => api_pc[b] # "idle"
    /\ \E md \in ClientMetadata :
         /\ ~(ValidPriority(md.priority) /\ ValidRetryCount(md.retry_count))
         /\ api_req' = [api_req EXCEPT ![c] = md]
    /\ api_pc' = [api_pc EXCEPT ![c] = "done"]
    /\ api_resp' = [api_resp EXCEPT ![c] = 422]
    /\ UNCHANGED <<aux, driver, meta, resp, queues, api_msg, pending_stored,
                   enqueued, w_pc, w_local, w_log, ghost, republished, fault,
                   faults>>

\* submit_request up to and including the PENDING write (its return value
\* is not looked at)
SubmitStore(c) ==
    /\ api_pc[c] = "idle"
    \* correlation ids are fresh uuid4 values: they are handed out in order
    /\ \A b \in CIDs : b < c => api_pc[b] # "idle"
    /\ \E md \in ClientMetadata, o \in Within(CacheSetOutcomes, faults) :
         /\ ValidPriority(md.priority)
         /\ ValidRetryCount(md.retry_count)
         /\ api_req' = [api_req EXCEPT ![c] = md]
         /\ api_msg' = [api_msg EXCEPT ![c] =
                          [correlation_id |-> c, payload |-> PayloadOf(c),
                           retry_count |-> ModelDump(md, "retry_count"),
                           session_id |-> ModelDump(md, "session_id"),
                           partition_key |-> ModelDump(md, "partition_key"),
                           has_metadata |-> TRUE]]
         /\ meta' = CacheSet(meta, c, PendingState, o)
         /\ pending_stored' = [pending_stored EXCEPT ![c] = ~Failed(o)]
         /\ fault' = [fault EXCEPT ![c] = @ \/ Failed(o)]
         /\ faults' = IF Failed(o) THEN faults + 1 ELSE faults
    /\ api_pc' = [api_pc EXCEPT ![c] = "publish"]
    /\ UNCHANGED <<aux, driver, resp, queues, api_resp, enqueued, w_pc, w_local,
                   w_log, ghost, republished>>

\* the HTTP status submit_request answers for a publish outcome
SubmitStatus(o) ==
    CASE o = "ok"    -> 202
      [] o = "false" -> 503
      [] o = "raise" -> 500

\* submit_request from the publish to the response
SubmitPublish(c) ==
    /\ api_pc[c] = "publish"
    /\ \E o \in Within(PublishOutcomes(driver), faults) :
         /\ requests' = Publish(requests, api_msg[c], o)
         /\ enqueued' = [enqueued EXCEPT ![c] = ~Failed(o)]
         /\ api_resp' = [api_resp EXCEPT ![c] = SubmitStatus(o)]
         /\ fault' = [fault EXCEPT ![c] = @ \/ Failed(o)]
         /\ faults' = IF Failed(o) THEN faults + 1 ELSE faults
    /\ api_pc' = [api_pc EXCEPT ![c] = "done"]
    /\ api_msg' = [api_msg EXCEPT ![c] = NoMsg]
    /\ api_req' = [api_req EXCEPT ![c] = NoReq]
    /\ UNCHANGED <<aux, driver, meta, resp, responses, dlq, pel,
                   pending_stored, w_pc, w_local, w_log, ghost, republished>>

\* ----------------------------------------------------------------- worker
\* the consume loop reads the next message and calls _handle_message
Deliver(w) ==
    /\ w_pc[w] = "idle"
    /\ requests # <<>>
    /\ requests' = Tail(requests)
    /\ w_msg' = [w_msg EXCEPT ![w] = Head(requests)]
    /\ w_ev' = [w_ev EXCEPT ![w] = "none"]
    /\ w_clause' = [w_clause EXCEPT ![w] = "none"]
    /\ w_log' = [w_log EXCEPT ![w] =
                   [NoLog EXCEPT !.rc_in = Head(requests).retry_count]]
    /\ IF DeliversDict(driver)
       THEN /\ current_message' =
                 [current_message EXCEPT ![w] = Head(requests).correlation_id]
            /\ w_pc' = [w_pc EXCEPT ![w] = "set_processing"]
            /\ w_err' = [w_err EXCEPT ![w] = "none"]
       ELSE \* message.get on a QueueMessage: AttributeError before the try
            /\ current_message' = current_message
            /\ w_pc' = [w_pc EXCEPT ![w] = "raised"]
            /\ w_err' = [w_err EXCEPT ![w] = "AttributeError"]
    /\ UNCHANGED <<aux, driver, meta, resp, responses, dlq, pel, api_vars, ghost,
                   republished, fault, faults>>

cid(w) == w_msg[w].correlation_id

LogMetaWrite(w, st, o) ==
    [w_log EXCEPT ![w].meta_writes = IF o = "ok" THEN Append(@, st.status)
                                     ELSE @,
                  ![w].fault = @ \/ Failed(o)]

\* write PROCESSING on dequeue
SetProcessing(w) ==
    /\ w_pc[w] = "set_processing"
    /\ \E o \in Within(CacheSetOutcomes, faults) :
         /\ meta' = CacheSet(meta, cid(w), ProcessingState, o)
         /\ w_log' = LogMetaWrite(w, ProcessingState, o)
         /\ fault' = [fault EXCEPT ![cid(w)] = @ \/ Failed(o)]
         /\ faults' = IF Failed(o) THEN faults + 1 ELSE faults
    /\ w_pc' = [w_pc EXCEPT ![w] = "process"]
    /\ UNCHANGED <<aux, driver, resp, queues, api_vars, w_local, ghost,
                   republished>>

\* (variant: the message is requeued with retry_count left as it was)
NextRetryCountSame(rc) == rc

\* message["metadata"]["retry_count"] = retry_count + 1
NextRetryCount(rc) == rc + 1

\* where the handler continues after an exception of processor.process
AfterRaise(clause, rc) ==
    CASE clause = "retryable" /\ rc < MaxRetries -> "republish"
      [] OTHER                                   -> "send_to_dlq"

\* message["metadata"]["retry_count"] = retry_count + 1 in the retry path:
\* a KeyError on a message that has no metadata field, raised inside the
\* except clause, so that no other clause of the try catches it
RequeueRaises(m) == ~m.has_metadata

\* the 0-based index of worker w in the deployment
WorkerIndex(w) == w - 1

\* MessageProcessor.process, the partition check: a processor that has a
\* partition manager refuses a message the manager does not accept
SkipsMessage(w) ==
    /\ HasPartitionManager(pm_config, processor_worker_id)
    /\ ~ShouldProcess(pm_config, worker_partitions[WorkerIndex(w)], w_msg[w],
                      now_ms)

\* what processor.process can meet for the message worker w holds
ProcessEvents(w) ==
    IF SkipsMessage(w) THEN {"partition_skip"} ELSE UpstreamEvents

\* call processor.process; on an exception enter the except clause up to
\* its first await
Process(w) ==
    /\ w_pc[w] = "process"
    /\ \E ev \in ProcessEvents(w) :
         LET out == ProcessorProcess(ev)
             clause == IF out.kind = "return" THEN "success"
                       ELSE ExceptClause(out.exc)
             rc == w_msg[w].retry_count
             requeues == out.kind = "raise"
                         /\ AfterRaise(clause, rc) = "republish"
             escapes == requeues /\ RequeueRaises(w_msg[w])
         IN /\ w_ev' = [w_ev EXCEPT ![w] = ev]
            /\ w_clause' = [w_clause EXCEPT ![w] = clause]
            /\ w_err' = [w_err EXCEPT ![w] =
                            IF escapes THEN "KeyError" ELSE out.exc]
            /\ current_message' =
                  IF escapes THEN [current_message EXCEPT ![w] = 0]
                  ELSE current_message
            /\ attempts' = [attempts EXCEPT ![cid(w)] = @ + 1]
            /\ all500' = [all500 EXCEPT ![cid(w)] = @ /\ ev = "http_500"]
            /\ ended' = [ended EXCEPT ![cid(w)] = clause]
            /\ IF out.kind = "return"
               THEN /\ w_pc' = [w_pc EXCEPT ![w] = "set_completed"]
                    /\ w_msg' = w_msg
               ELSE /\ w_pc' = [w_pc EXCEPT ![w] =
                                   IF escapes THEN "raised"
                                   ELSE AfterRaise(clause, rc)]
                    /\ w_msg' = IF requeues /\ ~escapes
                                THEN [w_msg EXCEPT ![w].retry_count =
                                                      NextRetryCount(rc)]
                                ELSE w_msg
    /\ w_log' = [w_log EXCEPT ![w].full_message =
                                  ProcessorFullMessage(w_msg[w])]
    /\ UNCHANGED <<aux, driver, meta, resp, queues, api_vars, republished,
                   fault, faults>>

\* write COMPLETED
SetCompleted(w) ==
    /\ w_pc[w] = "set_completed"
    /\ \E o \in Within(CacheSetOutcomes, faults) :
         /\ meta' = CacheSet(meta, cid(w), CompletedState, o)
         /\ w_log' = LogMetaWrite(w, CompletedState, o)
         /\ fault' = [fault EXCEPT ![cid(w)] = @ \/ Failed(o)]
         /\ faults' = IF Failed(o) THEN faults + 1 ELSE faults
    /\ w_pc' = [w_pc EXCEPT ![w] = "set_response"]
    /\ UNCHANGED <<aux, driver, resp, queues, api_vars, w_local, ghost,
                   republished>>

\* write the ResponseRecord
SetResponse(w) ==
    /\ w_pc[w] = "set_response"
    /\ \E o \in Within(CacheSetOutcomes, faults) :
         /\ resp' = CacheSet(resp, cid(w),
                             ResultRecord(ProcessorProcess(w_ev[w]).status_code),
                             o)
         /\ w_log' = [w_log EXCEPT ![w].resp_writes =
                                      IF o = "ok" THEN @ + 1 ELSE @,
                                   ![w].fault = @ \/ Failed(o)]
         /\ fault' = [fault EXCEPT ![cid(w)] = @ \/ Failed(o)]
         /\ faults' = IF Failed(o) THEN faults + 1 ELSE faults
    /\ w_pc' = [w_pc EXCEPT ![w] = "publish_response"]
    /\ UNCHANGED <<aux, driver, meta, queues, api_vars, w_local, ghost,
                   republished>>

\* publish the mirror message; a QueueError raised here is caught by the
\* handler's own "except Exception"
PublishResponse(w) ==
    /\ w_pc[w] = "publish_response"
    /\ \E o \in Within(PublishOutcomes(driver), faults) :
         /\ responses' = Publish(responses,
                                 MirrorMessage(w_msg[w],
                                     ProcessorProcess(w_ev[w]).status_code),
                                 o)
         /\ w_log' = [w_log EXCEPT ![w].pub_responses =
                                      IF o = "ok" THEN @ + 1 ELSE @,
                                   ![w].fault = @ \/ Failed(o)]
         /\ fault' = [fault EXCEPT ![cid(w)] = @ \/ Failed(o)]
         /\ faults' = IF Failed(o) THEN faults + 1 ELSE faults
         /\ IF o = "raise"
            THEN /\ w_clause' = [w_clause EXCEPT ![w] =
                                    ExceptClause("QueueError")]
                 /\ w_err' = [w_err EXCEPT ![w] = "QueueError"]
                 /\ w_pc' = [w_pc EXCEPT ![w] = "send_to_dlq"]
                 /\ current_message' = current_message
            ELSE /\ w_clause' = w_clause
                 /\ w_err' = w_err
                 /\ w_pc' = [w_pc EXCEPT ![w] = "done"]
                 /\ current_message' = [current_message EXCEPT ![w] = 0]
    /\ UNCHANGED <<aux, driver, meta, resp, requests, dlq, pel, api_vars, w_msg,
                   w_ev, ghost, republished>>

\* retry path: publish the message, retry_count already incremented, to the
\* request queue; a QueueError raised here escapes the handler
Republish(w) ==
    /\ w_pc[w] = "republish"
    /\ \E o \in Within(PublishOutcomes(driver), faults) :
         /\ requests' = Publish(requests, w_msg[w], o)
         /\ w_log' = [w_log EXCEPT ![w].pub_requests =
                                      IF o = "ok" THEN @ + 1 ELSE @,
                                   ![w].republished =
                                      IF o = "ok" THEN w_msg[w] ELSE @,
                                   ![w].delay =
                                      IF o = "ok"
                                      THEN RepublishDelay(w_msg[w].retry_count)
                                      ELSE @,
                                   ![w].fault = @ \/ Failed(o)]
         /\ republished' = [republished EXCEPT ![cid(w)] =
                               IF o = "ok" THEN @ + 1 ELSE @]
         /\ fault' = [fault EXCEPT ![cid(w)] = @ \/ Failed(o)]
         /\ faults' = IF Failed(o) THEN faults + 1 ELSE faults
         /\ IF o = "raise"
            THEN /\ w_err' = [w_err EXCEPT ![w] = "QueueError"]
                 /\ w_pc' = [w_pc EXCEPT ![w] = "raised"]
            ELSE /\ w_err' = w_err
                 /\ w_pc' = [w_pc EXCEPT ![w] = "done"]
    /\ current_message' = [current_message EXCEPT ![w] = 0]
    /\ UNCHANGED <<aux, driver, meta, resp, responses, dlq, pel, api_vars, w_msg,
                   w_ev, w_clause, ghost>>

\* (variant: only the FatalError clause calls _mark_failed)
MarksFailedFatalOnly(clause) == clause = "fatal"

\* whether the except clause calls _mark_failed after _send_to_dlq
MarksFailed(clause) == clause \in {"fatal", "unexpected"}

\* _send_to_dlq: any failure of the publish is logged and swallowed
SendToDlq(w) ==
    /\ w_pc[w] = "send_to_dlq"
    /\ \E o \in Within(PublishOutcomes(driver), faults) :
         /\ dlq' = Publish(dlq, DlqMessage(w_msg[w], w, w_err[w]), o)
         /\ w_log' = [w_log EXCEPT ![w].pub_dlq =
                                      IF o = "ok" THEN @ + 1 ELSE @,
                                   ![w].fault = @ \/ Failed(o)]
         /\ fault' = [fault EXCEPT ![cid(w)] = @ \/ Failed(o)]
         /\ faults' = IF Failed(o) THEN faults + 1 ELSE faults
    /\ IF MarksFailed(w_clause[w])
       THEN /\ w_pc' = [w_pc EXCEPT ![w] = "mark_failed_meta"]
            /\ current_message' = current_message
       ELSE /\ w_pc' = [w_pc EXCEPT ![w] = "done"]
            /\ current_message' = [current_message EXCEPT ![w] = 0]
    /\ UNCHANGED <<aux, driver, meta, resp, requests, responses, pel, api_vars,
                   w_msg, w_ev, w_clause, w_err, ghost, republished>>

\* _mark_failed, first write: FAILED state
MarkFailedMeta(w) ==
    /\ w_pc[w] = "mark_failed_meta"
    /\ \E o \in Within(CacheSetOutcomes, faults) :
         /\ meta' = CacheSet(meta, cid(w), FailedState, o)
         /\ w_log' = LogMetaWrite(w, FailedState, o)
         /\ fault' = [fault EXCEPT ![cid(w)] = @ \/ Failed(o)]
         /\ faults' = IF Failed(o) THEN faults + 1 ELSE faults
    /\ w_pc' = [w_pc EXCEPT ![w] = "mark_failed_resp"]
    /\ UNCHANGED <<aux, driver, resp, queues, api_vars, w_local, ghost,
                   republished>>

\* _mark_failed, second write: the error ResponseRecord
MarkFailedResp(w) ==
    /\ w_pc[w] = "mark_failed_resp"
    /\ \E o \in Within(CacheSetOutcomes, faults) :
         /\ resp' = CacheSet(resp, cid(w), ErrorRecord, o)
         /\ w_log' = [w_log EXCEPT ![w].resp_writes =
                                      IF o = "ok" THEN @ + 1 ELSE @,
                                   ![w].fault = @ \/ Failed(o)]
         /\ fault' = [fault EXCEPT ![cid(w)] = @ \/ Failed(o)]
         /\ faults' = IF Failed(o) THEN faults + 1 ELSE faults
    /\ w_pc' = [w_pc EXCEPT ![w] = "done"]
    /\ current_message' = [current_message EXCEPT ![w] = 0]
    /\ UNCHANGED <<aux, driver, meta, queues, api_vars, w_msg, w_ev, w_clause,
                   w_err, ghost, republished>>

\* the handler's frame is gone once it has returned or raised
ResetLocals(w) ==
    /\ w_msg' = [w_msg EXCEPT ![w] = NoMsg]
    /\ w_ev' = [w_ev EXCEPT ![w] = "none"]
    /\ w_clause' = [w_clause EXCEPT ![w] = "none"]
    /\ w_err' = [w_err EXCEPT ![w] = "none"]
    /\ w_log' = [w_log EXCEPT ![w] = NoLog]
    /\ current_message' = current_message

\* the handler returned: the consume loop acknowledges the delivery
Acknowledge(w) ==
    /\ w_pc[w] = "done"
    /\ w_pc' = [w_pc EXCEPT ![w] = "idle"]
    /\ ResetLocals(w)
    /\ UNCHANGED <<aux, driver, meta, resp, queues, api_vars, ghost, republished,
                   fault, faults>>

\* the handler raised: Redis leaves the entry unacknowledged in the pending
\* list (the loop only reads new entries); Pub/Sub nacks, so the broker
\* delivers the message again
HandlerRaised(w) ==
    /\ w_pc[w] = "raised"
    /\ w_pc' = [w_pc EXCEPT ![w] = "idle"]
    /\ IF driver = "redis"
       THEN /\ pel' = Append(pel, w_msg[w])
            /\ requests' = requests
       ELSE /\ requests' = Append(requests, w_msg[w])
            /\ pel' = pel
    /\ ResetLocals(w)
    /\ UNCHANGED <<aux, driver, meta, resp, responses, dlq, api_vars, ghost,
                   republished, fault, faults>>

\* ---------------------------------------------------------- query handlers
\* RedisCache.get: the stored value, or None when the key is missing or the
\* read failed
CacheGet(store, key, missing, o) == IF o = "ok" THEN store[key] ELSE missing

\* get_status on the value cache.get returned: 404 when it is None; a
\* RequestState without submitted_at raises KeyError, which the handler's
\* "except Exception" answers with 500
GetStatusResult(m) ==
    IF m = NoState
    THEN [NoStatusAnswer EXCEPT !.http = 404]
    ELSE IF ~m.submitted_at
    THEN [NoStatusAnswer EXCEPT !.http = 500]
    ELSE [NoStatusAnswer EXCEPT !.http = 200, !.status = m.status,
                                !.submitted_at = TRUE, !.updated_at = TRUE]

\* GET /status/{cid}: one read of req:{cid}:meta
GetStatus(c) ==
    /\ \E o \in Within(CacheGetOutcomes, faults) :
         /\ st_ans' = [st_ans EXCEPT ![c] =
                          [GetStatusResult(CacheGet(meta, c, NoState, o))
                             EXCEPT !.seen_meta = meta[c],
                                    !.read_failed = Failed(o)]]
         /\ faults' = IF Failed(o) THEN faults + 1 ELSE faults
    /\ UNCHANGED <<others, pm_vars, driver, meta, resp, queues, api_vars, w_pc,
                   w_local, w_log, ghost, republished, fault, q_pc, q_meta,
                   q_ans>>

\* (variant: no text is synthesised when the record is missing)
ErrorTextUnsynthesised(r) ==
    IF r # NoResp /\ "error" \in r.fields THEN "stored" ELSE "none"

\* the error text of a FAILED answer: response_data.get("error") when a
\* ResponseRecord was read, "Processing failed" otherwise
ErrorText(r) ==
    IF r # NoResp
    THEN IF "error" \in r.fields THEN "stored" ELSE "none"
    ELSE "Processing failed"

\* get_response on the two values it read; the route declares no status
\* code, so every ResultResponse it returns is sent with HTTP 200
GetResponseResult(m, r) ==
    IF m.status = "COMPLETED" /\ r # NoResp
    THEN [NoAnswer EXCEPT !.http = 200, !.status = m.status,
                          !.result = "result" \in r.fields,
                          !.headers = "headers" \in r.fields,
                          !.status_code = r.status_code,
                          !.completed_at = TRUE]
    ELSE IF m.status = "FAILED"
    THEN [NoAnswer EXCEPT !.http = 200, !.status = m.status,
                          !.error = ErrorText(r),
                          !.completed_at = r # NoResp]
    ELSE [NoAnswer EXCEPT !.http = 200, !.status = m.status]

\* GET /response/{cid}, first read: req:{cid}:meta; None is answered 404
GetResponseReadMeta(c) ==
    /\ q_pc[c] = "idle"
    /\ \E o \in Within(CacheGetOutcomes, faults) :
         LET m == CacheGet(meta, c, NoState, o)
         IN /\ faults' = IF Failed(o) THEN faults + 1 ELSE faults
            /\ IF m = NoState
               THEN /\ q_ans' = [q_ans EXCEPT ![c] =
                                    [NoAnswer EXCEPT !.http = 404,
                                                     !.seen_meta = meta[c],
                                                     !.read_failed = Failed(o)]]
                    /\ UNCHANGED <<q_pc, q_meta>>
               ELSE /\ q_meta' = [q_meta EXCEPT ![c] = m]
                    /\ q_pc' = [q_pc EXCEPT ![c] = "read_resp"]
                    /\ q_ans' = q_ans
    /\ UNCHANGED <<others, pm_vars, driver, meta, resp, queues, api_vars, w_pc,
                   w_local, w_log, ghost, republished, fault, st_ans>>

\* GET /response/{cid}, second read: resp:{cid}, then the answer
GetResponseReadResp(c) ==
    /\ q_pc[c] = "read_resp"
    /\ \E o \in Within(CacheGetOutcomes, faults) :
         /\ q_ans' = [q_ans EXCEPT ![c] =
                         [GetResponseResult(q_meta[c],
                                            CacheGet(resp, c, NoResp, o))
                            EXCEPT !.seen_meta = q_meta[c],
                                   !.seen_resp = resp[c],
                                   !.read_failed = Failed(o)]]
         /\ faults' = IF Failed(o) THEN faults + 1 ELSE faults
    /\ q_pc' = [q_pc EXCEPT ![c] = "idle"]
    /\ q_meta' = [q_meta EXCEPT ![c] = NoState]
    /\ UNCHANGED <<others, pm_vars, driver, meta, resp, queues, api_vars, w_pc,
                   w_local, w_log, ghost, republished, fault, st_ans>>

\* ------------------------------------------------------ partition managers
\* the worker indexes of the deployment
Managers == 0..(worker_count - 1)

AllAssigned == \A i \in Managers : pm_assigned[i]

\* assign_worker_partitions(worker_count, worker_index)
AssignWorkerPartitions(i) ==
    /\ worker_partitions' =
          [worker_partitions EXCEPT ![i] =
              {p \in 0..(pm_config.partition_count - 1) :
                  AssignedWorkerIndex(p, worker_count) = i}]
    /\ pm_assigned' = [pm_assigned EXCEPT ![i] = TRUE]
    /\ UNCHANGED <<others, q_vars, driver, meta, resp, queues, api_vars, w_pc,
                   w_local, w_log, ghost, republished, fault, faults,
                   pm_config, worker_count, now_ms, pm_last, pm_last_accept>>

\* time passes
Tick ==
    /\ now_ms < MaxClock
    /\ now_ms' = now_ms + 1
    /\ UNCHANGED <<others, q_vars, driver, meta, resp, queues, api_vars, w_pc,
                   w_local, w_log, ghost, republished, fault, faults,
                   pm_config, worker_count, worker_partitions, pm_assigned,
                   pm_last, pm_last_accept>>

\* get_partition_for_key(key) on worker i
GetPartitionForKey(i, k) ==
    /\ pm_last' = [key |-> k, partition |-> AssignPartition(pm_config, k, now_ms)]
    /\ UNCHANGED <<others, q_vars, driver, meta, resp, queues, api_vars, w_pc,
                   w_local, w_log, ghost, republished, fault, faults,
                   pm_config, worker_count, worker_partitions, pm_assigned,
                   now_ms, pm_last_accept>>

\* should_process_message(message) on worker i
ShouldProcessMessage(i, m) ==
    /\ pm_last' =
          IF GetPartitionForMessage(pm_config, m, now_ms) # -1
          THEN [key |-> PartitionKeyOf(m),
                partition |-> GetPartitionForMessage(pm_config, m, now_ms)]
          ELSE pm_last
    /\ pm_last_accept' =
          IF /\ ShouldProcess(pm_config, worker_partitions[i], m, now_ms)
             /\ AllAssigned
             /\ Truthy(m.session_id)
          THEN [session_id |-> m.session_id,
                has_key |-> Truthy(m.partition_key),
                worker_index |-> i]
          ELSE pm_last_accept
    /\ UNCHANGED <<others, q_vars, driver, meta, resp, queues, api_vars, w_pc,
                   w_local, w_log, ghost, republished, fault, faults,
                   pm_config, worker_count, worker_partitions, pm_assigned,
                   now_ms>>

\* a deployment of worker_count partition managers sharing one configuration
PartitionInit ==
    /\ driver = "redis"
    /\ Quiescent
    /\ pm_config \in PartitionConfigs
    /\ worker_count \in 1..MaxWorkerCount
    /\ ManagersCreated
    /\ processor_worker_id = RunWorkerProcessorId
    /\ EngineCreated(DefaultRouteConfig)
    /\ WorkerCreated(0)
    /\ DriverConnected(DefaultQos)

PartitionNext ==
    \/ \E i \in Managers : AssignWorkerPartitions(i)
    \/ Tick
    \/ \E i \in Managers, k \in {"sess-X", "sess-Y", "key-B"} :
          GetPartitionForKey(i, k)
    \/ \E i \in Managers, m \in PartitionMessages : ShouldProcessMessage(i, m)

PartitionSpec == PartitionInit /\ [][PartitionNext]_vars

\* ------------------------------------------------- partitioned deployment
\* the session ids of keyed messages on the request stream
KeyedSessionIds == {"sess-X", "sess-Y"}

\* RedisQueue.publish("requests", message) by a producer whose message
\* carries a session id at session_key_field
\* the messages such a producer publishes: with metadata.session_id set, or
\* with no metadata field at all
ProducerMessages(c) ==
    {[correlation_id |-> c, payload |-> PayloadOf(c), retry_count |-> 0,
      session_id |-> sid, partition_key |-> "none", has_metadata |-> TRUE] :
        sid \in KeyedSessionIds}
    \cup {[correlation_id |-> c, payload |-> PayloadOf(c), retry_count |-> 0,
           session_id |-> "none", partition_key |-> "none",
           has_metadata |-> FALSE]}

ProducerPublish(c) ==
    /\ api_pc[c] = "idle"
    /\ \A b \in CIDs : b < c => api_pc[b] # "idle"
    /\ \E m \in ProducerMessages(c) : requests' = Append(requests, m)
    /\ api_pc' = [api_pc EXCEPT ![c] = "done"]
    /\ enqueued' = [enqueued EXCEPT ![c] = TRUE]
    /\ UNCHANGED <<aux, driver, meta, resp, responses, dlq, pel, api_msg,
                   api_req, api_resp, pending_stored, w_pc, w_local, w_log,
                   ghost, republished, fault, faults>>

\* processor.set_partition_assignments(worker_count, worker_index): has an
\* effect only on a processor that has a partition manager
SetPartitionAssignments(w) ==
    /\ HasPartitionManager(pm_config, processor_worker_id)
    /\ AssignWorkerPartitions(WorkerIndex(w))

\* workers of a deployment with settings.partitioning set, their processor
\* built with or without a worker_id
WorkerInit ==
    /\ driver \in Drivers
    /\ Quiescent
    /\ pm_config \in {cfg \in PartitionConfigs :
                        /\ cfg.strategy = DefaultPartitionConfig.strategy
                        /\ cfg.partition_count = MaxPartitions}
    /\ worker_count = MaxWorkerCount
    /\ ManagersCreated
    /\ processor_worker_id \in ProcessorWorkerIds
    /\ EngineCreated(DefaultRouteConfig)
    /\ WorkerCreated(0)
    /\ DriverConnected(DefaultQos)

\* --------------------------------------------------------- routing engine
\* RoutingEngine.route(message)
Route(value) ==
    /\ rt_message' = value
    /\ rt_result' = RouteMessage(rt_config, value)
    /\ UNCHANGED <<pipe_vars, q_vars, pm_vars, proc_vars, lc_vars, cs_vars,
                   h_vars, fw_vars, sess_vars, rt_config>>

\* a routing engine built from a configuration document
RouteInit ==
    /\ driver = "redis"
    /\ Quiescent
    /\ pm_config = DefaultPartitionConfig
    /\ worker_count = 1
    /\ ManagersCreated
    /\ processor_worker_id = RunWorkerProcessorId
    /\ \E cfg \in RouteConfigs : EngineCreated(cfg)
    /\ WorkerCreated(0)
    /\ DriverConnected(DefaultQos)

RouteNext == \E value \in MessageTypes : Route(value)

RouteSpec == RouteInit /\ [][RouteNext]_vars

\* -------------------------------------------------------- worker lifecycle
\* everything outside the lifecycle of the worker
not_lc == <<pipe_vars, q_vars, pm_vars, proc_vars, rt_vars, cs_vars,
            h_vars, fw_vars, sess_vars>>

\* Worker.start up to the consume loop: running is set, the signal handlers
\* are registered, RedisQueue.consume sets _running
Start ==
    /\ lc_pc = "created"
    /\ running' = TRUE
    /\ queue_running' = TRUE
    /\ lc_pc' = "polling"
    /\ UNCHANGED <<not_lc, queue_connected, cache_open, lc_stream, lc_current,
                   signalled, sd_pc, sd_slept>>

\* "while self._running" finds the flag set: the loop awaits xreadgroup
LoopEnter ==
    /\ lc_pc = "polling"
    /\ queue_running
    /\ lc_pc' = "reading"
    /\ UNCHANGED <<not_lc, running, queue_running, queue_connected,
                   cache_open, lc_stream, lc_current, signalled, sd_pc,
                   sd_slept>>

\* xreadgroup returns: with a message, the handler is called and sets
\* current_message; after the one second block without one, or with an
\* error on a closed connection, the loop goes round
Poll ==
    /\ lc_pc = "reading"
    /\ IF queue_connected /\ lc_stream > 0
       THEN /\ lc_stream' = lc_stream - 1
            /\ lc_current' = MaxStream - lc_stream + 1
            /\ lc_pc' = "handling"
       ELSE /\ lc_pc' = "polling"
            /\ UNCHANGED <<lc_stream, lc_current>>
    /\ UNCHANGED <<not_lc, running, queue_running, queue_connected,
                   cache_open, signalled, sd_pc, sd_slept>>

\* _handle_message ends (finally: current_message = None) and the loop goes
\* on
HandlerEnd ==
    /\ lc_pc = "handling"
    /\ lc_current' = 0
    /\ lc_pc' = "polling"
    /\ UNCHANGED <<not_lc, running, queue_running, queue_connected,
                   cache_open, lc_stream, signalled, sd_pc, sd_slept>>

\* "while self._running" finds the flag cleared: consume returns and start
\* reaches its finally block
LoopExit ==
    /\ lc_pc = "polling"
    /\ ~queue_running
    /\ lc_pc' = "ended"
    /\ UNCHANGED <<not_lc, running, queue_running, queue_connected,
                   cache_open, lc_stream, lc_current, signalled, sd_pc,
                   sd_slept>>

\* the task running start is cancelled: CancelledError passes through the
\* handler's finally and breaks the loop
Cancel ==
    /\ lc_pc \in {"polling", "reading", "handling"}
    /\ lc_current' = 0
    /\ lc_pc' = "ended"
    /\ UNCHANGED <<not_lc, running, queue_running, queue_connected,
                   cache_open, lc_stream, signalled, sd_pc, sd_slept>>

\* _handle_shutdown(signum, frame), registered by start for SIGTERM and
\* SIGINT
HandleShutdown ==
    /\ lc_pc \in {"polling", "reading", "handling"}
    /\ running' = FALSE
    /\ signalled' = TRUE
    /\ UNCHANGED <<not_lc, lc_pc, queue_running, queue_connected, cache_open,
                   lc_stream, lc_current, sd_pc, sd_slept>>

\* start, "finally: await self.shutdown()"
StartFinally ==
    /\ lc_pc = "ended"
    /\ sd_pc["start"] = "idle"
    /\ sd_pc' = [sd_pc EXCEPT !["start"] = "waiting"]
    /\ lc_pc' = "shutdown"
    /\ UNCHANGED <<not_lc, running, queue_running, queue_connected,
                   cache_open, lc_stream, lc_current, signalled, sd_slept>>

\* another task awaits worker.shutdown() while the worker consumes
CallShutdown ==
    /\ lc_pc \in {"polling", "reading", "handling"}
    /\ sd_pc["caller"] = "idle"
    /\ sd_pc' = [sd_pc EXCEPT !["caller"] = "waiting"]
    /\ UNCHANGED <<not_lc, lc_pc, running, queue_running, queue_connected,
                   cache_open, lc_stream, lc_current, signalled, sd_slept>>

\* shutdown, the wait: leave it when it is over, sleep one second otherwise
ShutdownWait(k) ==
    /\ sd_pc[k] = "waiting"
    /\ IF WaitOver(sd_slept[k], lc_current)
       THEN /\ sd_pc' = [sd_pc EXCEPT ![k] = "disconnect"]
            /\ sd_slept' = sd_slept
       ELSE /\ sd_slept' = [sd_slept EXCEPT ![k] = @ + 1]
            /\ sd_pc' = sd_pc
    /\ UNCHANGED <<not_lc, lc_pc, running, queue_running, queue_connected,
                   cache_open, lc_stream, lc_current, signalled>>

\* shutdown: await self.queue.disconnect(), which clears _running and
\* closes the connection
ShutdownDisconnect(k) ==
    /\ sd_pc[k] = "disconnect"
    /\ queue_running' = FALSE
    /\ queue_connected' = FALSE
    /\ sd_pc' = [sd_pc EXCEPT ![k] = "close"]
    /\ UNCHANGED <<not_lc, lc_pc, running, cache_open, lc_stream, lc_current,
                   signalled, sd_slept>>

\* shutdown: await self.cache.close(); shutdown returns, and with it start
\* when start called it
ShutdownClose(k) ==
    /\ sd_pc[k] = "close"
    /\ cache_open' = FALSE
    /\ sd_pc' = [sd_pc EXCEPT ![k] = "done"]
    /\ lc_pc' = IF k = "start" THEN "returned" ELSE lc_pc
    /\ UNCHANGED <<not_lc, running, queue_running, queue_connected,
                   lc_stream, lc_current, signalled, sd_slept>>

\* a worker process on the Redis Streams driver
LifeInit ==
    /\ driver = "redis"
    /\ Quiescent
    /\ pm_config = DefaultPartitionConfig
    /\ worker_count = 1
    /\ ManagersCreated
    /\ processor_worker_id = RunWorkerProcessorId
    /\ EngineCreated(DefaultRouteConfig)
    /\ WorkerCreated(MaxStream)
    /\ DriverConnected(DefaultQos)

LifeNext ==
    \/ Start
    \/ LoopEnter
    \/ Poll
    \/ HandlerEnd
    \/ LoopExit
    \/ Cancel
    \/ HandleShutdown
    \/ StartFinally
    \/ CallShutdown
    \/ \E k \in ShutdownCallers : ShutdownWait(k)
    \/ \E k \in ShutdownCallers : ShutdownDisconnect(k)
    \/ \E k \in ShutdownCallers : ShutdownClose(k)

\* the event loop runs every task that is ready: the consume loop and a
\* shutdown that was called make their next step; a handler may hang, and
\* signals, cancellation and outside calls of shutdown need not come
LoopFairness ==
    /\ WF_vars(Start)
    /\ WF_vars(LoopEnter)
    /\ WF_vars(Poll)
    /\ WF_vars(LoopExit)
    /\ WF_vars(StartFinally)
    /\ \A k \in ShutdownCallers :
          /\ WF_vars(ShutdownWait(k))
          /\ WF_vars(ShutdownDisconnect(k))
          /\ WF_vars(ShutdownClose(k))

LifeSpec == LifeInit /\ [][LifeNext]_vars /\ LoopFairness

\* the same worker with handlers that always end
LifeFairSpec == LifeSpec /\ WF_vars(HandlerEnd)

\* ----------------------------------------------------------- queue drivers
\* everything outside the driver's consume loop
not_cs == <<pipe_vars, q_vars, pm_vars, proc_vars, rt_vars, lc_vars,
            h_vars, fw_vars, sess_vars>>

InFlight == {m \in Msgs : delivery[m] = "inflight"}
Ready == {m \in Msgs : delivery[m] = "ready"}

\* consume takes a message off the queue and starts the handler on it: the
\* stream drivers take the oldest message once the handler before it came
\* back, the Pub/Sub callback takes any message the service hands it
DriverDeliver(m) ==
    /\ delivery[m] = "ready"
    /\ AwaitsHandler(driver) => (InFlight = {} /\ \A k \in Ready : m <= k)
    /\ \E o \in CallbackOutcomes(driver) :
          delivery' = [delivery EXCEPT
                          ![m] = IF o = "nack" THEN "ready" ELSE "inflight"]
    /\ UNCHANGED <<not_cs, mqtt_qos, handler_outcome, last_reject>>

\* "await handler(...)" returns
DriverHandlerReturn(m) ==
    /\ delivery[m] = "inflight"
    /\ delivery' = [k \in Msgs |->
          IF k = m THEN OnHandlerReturn(driver, mqtt_qos)
          ELSE IF delivery[k] = "pending" /\ Checkpoints(driver, k, m)
               THEN "acked"
          ELSE delivery[k]]
    /\ handler_outcome' = [handler_outcome EXCEPT ![m] = "return"]
    /\ UNCHANGED <<not_cs, mqtt_qos, last_reject>>

\* "await handler(...)" raises: the except clause of the loop
DriverHandlerRaise(m) ==
    /\ delivery[m] = "inflight"
    /\ delivery' = [delivery EXCEPT ![m] = OnHandlerRaise(driver)]
    /\ handler_outcome' = [handler_outcome EXCEPT ![m] = "raise"]
    /\ UNCHANGED <<not_cs, mqtt_qos, last_reject>>

\* reject(message_id, requeue) on a message that was delivered and is not
\* acknowledged
DriverReject(m, requeue) ==
    /\ delivery[m] \in {"inflight", "pending"}
    /\ delivery' = [delivery EXCEPT ![m] = OnReject(driver, delivery[m])]
    /\ last_reject' = [id |-> m, requeue |-> requeue]
    /\ UNCHANGED <<not_cs, mqtt_qos, handler_outcome>>

\* one consumer of a queue that holds Msgs, on any of the drivers
ConsumeInit ==
    /\ driver \in QueueDrivers
    /\ Quiescent
    /\ pm_config = DefaultPartitionConfig
    /\ worker_count = 1
    /\ ManagersCreated
    /\ processor_worker_id = RunWorkerProcessorId
    /\ EngineCreated(DefaultRouteConfig)
    /\ WorkerCreated(0)
    /\ \E qos \in (IF driver = "mqtt" THEN MqttQos ELSE {DefaultQos}) :
          DriverConnected(qos)

ConsumeNext ==
    \/ \E m \in Msgs : DriverDeliver(m)
    \/ \E m \in Msgs : DriverHandlerReturn(m)
    \/ \E m \in Msgs : DriverHandlerRaise(m)
    \/ \E m \in Msgs : \E requeue \in BOOLEAN : DriverReject(m, requeue)

ConsumeSpec == ConsumeInit /\ [][ConsumeNext]_vars

\* -------------------------------------------------------- tracked sessions
\* everything but the tracked sessions
not_sess == <<pipe_vars, q_vars, pm_vars, proc_vars, rt_vars, lc_vars,
              cs_vars, h_vars, fw_vars>>

\* process, for a message with a session id that this worker handles:
\* track_session creates the SessionInfo or renews its last_seen
TrackSession(s) ==
    /\ ~proc_closed
    /\ sess_last_seen' = [sess_last_seen EXCEPT ![s] = now_ms]
    /\ UNCHANGED <<not_sess, proc_closed>>

\* MessageProcessor.close, at the end of run_worker: of the two bodies the
\* file has for it, one calls cleanup_expired_sessions and one does not
CloseProcessor ==
    /\ ~proc_closed
    /\ proc_closed' = TRUE
    /\ \E sweeps \in BOOLEAN :
          sess_last_seen' =
              IF sweeps
              THEN CleanupExpiredSessions(pm_config, sess_last_seen, now_ms)
              ELSE sess_last_seen
    /\ UNCHANGED not_sess

\* a running worker with a partition manager; time passes
SessionInit ==
    /\ driver = "redis"
    /\ Quiescent
    /\ pm_config \in SessionConfigs
    /\ worker_count = 1
    /\ ManagersCreated
    /\ processor_worker_id = "worker-1"
    /\ EngineCreated(DefaultRouteConfig)
    /\ WorkerCreated(0)
    /\ DriverConnected(DefaultQos)

SessionNext ==
    \/ \E s \in TrackedSessionIds : TrackSession(s)
    \/ Tick
    \/ CloseProcessor

\* the clock goes on; messages need not come and the worker need not end
SessionSpec == SessionInit /\ [][SessionNext]_vars /\ WF_vars(Tick)

\* --------------------------------------------------------- outbound method
\* process forwards a request: session.request(method=http_method, ...)
Forward ==
    /\ fw_out = "none"
    /\ fw_out' = HttpMethod(fw_in)
    /\ UNCHANGED <<pipe_vars, q_vars, pm_vars, proc_vars, rt_vars, lc_vars,
                   cs_vars, h_vars, sess_vars, fw_in>>

\* a processor about to forward a request: with or without the routing
\* engine, any method on the route, in the metadata and on the endpoint
ForwardInit ==
    /\ driver = "redis"
    /\ Quiescent
    /\ pm_config = DefaultPartitionConfig
    /\ worker_count = 1
    /\ ManagersCreated
    /\ processor_worker_id = RunWorkerProcessorId
    /\ rt_config = DefaultRouteConfig
    /\ rt_message = "none"
    /\ rt_result = NoRouting
    /\ WorkerCreated(0)
    /\ DriverConnected(DefaultQos)
    /\ fw_in \in [routing : RoutingKinds, route_method : RouteMethods,
                  metadata_method : MetadataMethods,
                  endpoint_method : EndpointMethods]
    /\ fw_in.routing # "route" => fw_in.route_method = "none"
    /\ fw_out = "none"

ForwardNext == Forward

ForwardSpec == ForwardInit /\ [][ForwardNext]_vars

\* ------------------------------------------------- handlers of one Worker
\* everything but the handler calls and the worker's current_message
not_h == <<pipe_vars, q_vars, pm_vars, proc_vars, rt_vars, cs_vars, fw_vars,
           sess_vars, lc_pc,
           running, queue_running, queue_connected, cache_open, lc_stream,
           signalled, sd_pc, sd_slept>>

\* _handle_message(message) starts: self.current_message = correlation_id
HandleStart(h) ==
    /\ h_pc[h] = "idle"
    /\ h_pc' = [h_pc EXCEPT ![h] = "running"]
    /\ lc_current' = h
    /\ UNCHANGED not_h

\* _handle_message ends, whatever the outcome: "finally:
\* self.current_message = None"
HandleFinish(h) ==
    /\ h_pc[h] = "running"
    /\ h_pc' = [h_pc EXCEPT ![h] = "returned"]
    /\ lc_current' = 0
    /\ UNCHANGED not_h

\* a started Worker whose handler is called for several messages at once
\* (asyncio.gather, or the tasks of the Pub/Sub driver), and on which
\* shutdown may be called
GatherInit ==
    /\ driver = "redis"
    /\ Quiescent
    /\ pm_config = DefaultPartitionConfig
    /\ worker_count = 1
    /\ ManagersCreated
    /\ processor_worker_id = RunWorkerProcessorId
    /\ EngineCreated(DefaultRouteConfig)
    /\ lc_pc = "polling"
    /\ running = TRUE
    /\ queue_running = TRUE
    /\ queue_connected = TRUE
    /\ cache_open = TRUE
    /\ lc_stream = 0
    /\ lc_current = 0
    /\ signalled = FALSE
    /\ sd_pc = [k \in ShutdownCallers |-> "idle"]
    /\ sd_slept = [k \in ShutdownCallers |-> 0]
    /\ h_pc = [h \in Handlers |-> "idle"]
    /\ DriverConnected(DefaultQos)

GatherNext ==
    \/ \E h \in Handlers : HandleStart(h)
    \/ \E h \in Handlers : HandleFinish(h)
    \/ CallShutdown
    \/ ShutdownWait("caller")
    \/ ShutdownDisconnect("caller")
    \/ ShutdownClose("caller")

GatherSpec == GatherInit /\ [][GatherNext]_vars

Next ==
    \/ \E c \in CIDs : SubmitRejected(c)
    \/ \E c \in CIDs : SubmitStore(c)
    \/ \E c \in CIDs : SubmitPublish(c)
    \/ \E w \in Workers : Deliver(w)
    \/ \E w \in Workers : SetProcessing(w)
    \/ \E w \in Workers : Process(w)
    \/ \E w \in Workers : SetCompleted(w)
    \/ \E w \in Workers : SetResponse(w)
    \/ \E w \in Workers : PublishResponse(w)
    \/ \E w \in Workers : Republish(w)
    \/ \E w \in Workers : SendToDlq(w)
    \/ \E w \in Workers : MarkFailedMeta(w)
    \/ \E w \in Workers : MarkFailedResp(w)
    \/ \E w \in Workers : Acknowledge(w)
    \/ \E w \in Workers : HandlerRaised(w)

Spec == Init /\ [][Next]_vars

\* the same pipeline under fair scheduling: the event loops of the API and
\* of the worker run every step that is ready, and the broker delivers what
\* is on the request queue
FairSpec == Spec /\ WF_vars(Next)

WorkerNext ==
    \/ Next
    \/ \E c \in CIDs : ProducerPublish(c)
    \/ \E w \in Workers : SetPartitionAssignments(w)

WorkerSpec == WorkerInit /\ [][WorkerNext]_vars

\* the pipeline together with clients polling the two query endpoints
QueryNext ==
    \/ Next
    \/ \E c \in CIDs : GetStatus(c)
    \/ \E c \in CIDs : GetResponseReadMeta(c)
    \/ \E c \in CIDs : GetResponseReadResp(c)

QuerySpec == Init /\ [][QueryNext]_vars

\* ------------------------------------------------------------ properties
Rank(st) ==
    CASE st = "none"       -> 0
      [] st = "PENDING"    -> 1
      [] st = "PROCESSING" -> 2
      [] OTHER             -> 3

OnQueue(q, c) == \E i \in 1..Len(q) : q[i].correlation_id = c
CountOn(q, c) == Cardinality({i \in 1..Len(q) : q[i].correlation_id = c})
Handling(c) == \E w \in Workers : w_pc[w] # "idle" /\ cid(w) = c
Wrote(w, st) == \E i \in 1..Len(w_log[w].meta_writes) :
                    w_log[w].meta_writes[i] = st
HandlerEnded(w) == w_pc[w] \in {"done", "raised"}

\* C1: the status stored under req:{cid}:meta only moves forward along
\* PENDING -> PROCESSING -> (COMPLETED | FAILED): no step lowers it, no step
\* changes a stored COMPLETED or FAILED, and PENDING is never stored over
\* PROCESSING.
C1_StatusMovesForward ==
    [][\A c \in CIDs :
          /\ Rank(meta'[c].status) >= Rank(meta[c].status)
          /\ meta[c].status \in {"COMPLETED", "FAILED"}
                => meta'[c].status = meta[c].status
          /\ meta[c].status = "PROCESSING" => meta'[c].status # "PENDING"]_vars

\* a request that was retried and then reached a final status
C1_Witness ==
    \E c \in CIDs : /\ republished[c] >= 1
                    /\ meta[c].status \in {"COMPLETED", "FAILED"}
                    /\ ~Handling(c)

\* C2: a retryable error on a message whose retry_count is >= max_retries
\* (the boundary included) sends the message to the DLQ, marks the request
\* FAILED and does not republish it.
C2_ExhaustedGoesToDlqAndFailed ==
    \A w \in Workers :
        (/\ HandlerEnded(w)
         /\ w_clause[w] = "retryable"
         /\ w_log[w].rc_in >= MaxRetries
         /\ ~w_log[w].fault)
        => /\ w_log[w].pub_dlq = 1
           /\ w_log[w].pub_requests = 0
           /\ Wrote(w, "FAILED")
           /\ meta[cid(w)].status = "FAILED"

\* C3: a retryable error on a message whose retry_count is < max_retries
\* republishes the same message (same correlation_id and payload) with
\* retry_count one higher, writes no FAILED state and no DLQ message, and the
\* handler returns so that the delivery is acknowledged.
C3_RetryRepublishesOnce ==
    \A w \in Workers :
        (/\ HandlerEnded(w)
         /\ w_clause[w] = "retryable"
         /\ w_log[w].rc_in < MaxRetries
         /\ ~w_log[w].fault)
        => /\ w_pc[w] = "done"
           /\ w_log[w].pub_requests = 1
           /\ w_log[w].republished =
                  [w_msg[w] EXCEPT !.payload = PayloadOf(cid(w)),
                                   !.retry_count = w_log[w].rc_in + 1]
           /\ w_log[w].pub_dlq = 0
           /\ ~Wrote(w, "FAILED")
           /\ w_log[w].resp_writes = 0

\* a handler that has requeued a message after a retryable error
C3_Witness ==
    \E w \in Workers :
        /\ w_pc[w] = "done"
        /\ w_clause[w] = "retryable"
        /\ w_log[w].rc_in < MaxRetries
        /\ ~w_log[w].fault
        /\ w_log[w].pub_requests = 1

\* C4: a network error or a timeout of the outbound HTTP call is handled on
\* the retry path, not on the fatal path.
C4_NetworkErrorIsRetryable ==
    \A w \in Workers :
        w_ev[w] \in NetworkEvents
        => /\ w_clause[w] = "retryable"
           /\ w_log[w].rc_in < MaxRetries
                => w_pc[w] \notin {"send_to_dlq", "mark_failed_meta",
                                   "mark_failed_resp"}

\* C5: a fatal error, or any exception that is not a retryable error, ends
\* the request after that one attempt: one DLQ message, state FAILED, no
\* republish, and no further attempt afterwards.
C5_FatalIsNotRetried ==
    /\ \A w \in Workers :
          (/\ HandlerEnded(w)
           /\ w_clause[w] \in {"fatal", "unexpected"}
           /\ ~w_log[w].fault)
          => /\ w_pc[w] = "done"
             /\ w_log[w].pub_dlq = 1
             /\ CountOn(dlq, cid(w)) = 1
             /\ w_log[w].pub_requests = 0
             /\ Wrote(w, "FAILED")
             /\ meta[cid(w)].status = "FAILED"
    /\ \A c \in CIDs :
          ended[c] \in {"fatal", "unexpected"}
          => /\ ~OnQueue(requests, c)
             /\ attempts[c] = republished[c] + 1
             /\ \A w \in Workers : cid(w) = c => w_pc[w] # "republish"

\* a request whose only attempt ended on the fatal path
C5_Witness ==
    \E w \in Workers :
        /\ w_pc[w] = "done"
        /\ w_clause[w] \in {"fatal", "unexpected"}
        /\ ~w_log[w].fault
        /\ attempts[cid(w)] = 1
        /\ meta[cid(w)].status = "FAILED"

\* C6: when the upstream always answers HTTP 500 the request is never
\* recorded as COMPLETED; once its handling is over it has been attempted
\* max_retries+1 times, its state is FAILED, the DLQ holds a message with its
\* correlation_id and resp:{cid} holds an error.
C6_Always500EndsFailed ==
    \A c \in CIDs :
        (attempts[c] >= 1 /\ all500[c] /\ ~fault[c])
        => /\ meta[c].status # "COMPLETED"
           /\ (~Handling(c) /\ ~OnQueue(requests, c))
                => /\ attempts[c] = MaxRetries + 1
                   /\ meta[c].status = "FAILED"
                   /\ OnQueue(dlq, c)
                   /\ "error" \in resp[c].fields

\* C7: when processing succeeds the worker leaves the request COMPLETED,
\* stores a ResponseRecord with result, status_code, headers and processing
\* time, publishes exactly one mirror message with the same correlation_id,
\* and publishes nothing to the request queue or the DLQ.
C7_SuccessPath ==
    \A w \in Workers :
        (/\ HandlerEnded(w)
         /\ w_clause[w] = "success"
         /\ ~w_log[w].fault)
        => /\ w_pc[w] = "done"
           /\ meta[cid(w)].status = "COMPLETED"
           /\ {"result", "status_code", "headers", "processing_time_ms"}
                 \subseteq resp[cid(w)].fields
           /\ resp[cid(w)].status_code = ProcessorProcess(w_ev[w]).status_code
           /\ w_log[w].pub_responses = 1
           /\ CountOn(responses, cid(w)) = 1
           /\ w_log[w].pub_requests = 0
           /\ w_log[w].pub_dlq = 0

\* a handler that has finished the success path
C7_Witness ==
    \E w \in Workers :
        /\ w_pc[w] = "done"
        /\ w_clause[w] = "success"
        /\ ~w_log[w].fault
        /\ w_log[w].pub_responses = 1

\* C8: submit answers 202 only if the PENDING RequestState was stored and
\* the request message was enqueued.
C8_AcceptedMeansStoredAndEnqueued ==
    \A c \in CIDs :
        api_resp[c] = 202 => pending_stored[c] /\ enqueued[c]

\* C9: when the PENDING write succeeded and the publish failed, submit
\* answers 503, the PENDING record stays in the state store and no message
\* for the correlation id is on the request queue.
C9_PublishFailureAnswers503 ==
    \A c \in CIDs :
        (api_pc[c] = "done" /\ pending_stored[c] /\ ~enqueued[c])
        => /\ api_resp[c] = 503
           /\ meta[c] = PendingState
           /\ ~OnQueue(requests, c)

\* C10: a correlation id whose stored status is COMPLETED has a
\* ResponseRecord under resp:{cid}.
C10_CompletedHasResponse ==
    \A c \in CIDs :
        meta[c].status = "COMPLETED" => "result" \in resp[c].fields

\* what the client receives of an answer of GET /response/{cid}
Body(a) ==
    [http |-> a.http, status |-> a.status, result |-> a.result,
     status_code |-> a.status_code, headers |-> a.headers,
     error |-> a.error, completed_at |-> a.completed_at]

Answered(a) == a.http # 0 /\ ~a.read_failed

\* C11: once GET /response/{cid} has reported the request COMPLETED, every
\* later GET /response/{cid} (whose reads of the store succeed) returns the
\* same body; and no step of a query handler changes req:{cid}:meta or
\* resp:{cid}.
C11_SameBodyAfterCompletion ==
    [][\A c \in CIDs :
          /\ (/\ q_ans[c].status = "COMPLETED"
              /\ ~q_ans[c].read_failed
              /\ q_ans'[c] # q_ans[c]
              /\ ~q_ans'[c].read_failed)
             => Body(q_ans'[c]) = Body(q_ans[c])
          /\ q_vars' # q_vars => (meta' = meta /\ resp' = resp)]_vars

\* C12: GET /status/{cid} answers 404 exactly when req:{cid}:meta does not
\* exist; when it exists, whatever its status, the answer is 200 with the
\* stored status, submitted_at and updated_at.
C12_StatusAnswer ==
    \A c \in CIDs :
        (st_ans[c].http # 0 /\ ~st_ans[c].read_failed)
        => /\ st_ans[c].http = 404 <=> st_ans[c].seen_meta = NoState
           /\ st_ans[c].seen_meta # NoState
                => /\ st_ans[c].http = 200
                   /\ st_ans[c].status = st_ans[c].seen_meta.status
                   /\ st_ans[c].submitted_at
                   /\ st_ans[c].updated_at

\* C13: GET /response/{cid} answers 404 when there is no RequestState; the
\* result with its status_code and headers when the state is COMPLETED and a
\* ResponseRecord is there; the error when the state is FAILED, with the
\* text "Processing failed" when there is no ResponseRecord; and nothing but
\* the status when the state is PENDING or PROCESSING.
C13_ResponseAnswerByState ==
    \A c \in CIDs :
        Answered(q_ans[c])
        => /\ q_ans[c].seen_meta = NoState => q_ans[c].http = 404
           /\ (/\ q_ans[c].seen_meta.status = "COMPLETED"
               /\ q_ans[c].seen_resp # NoResp)
              => /\ q_ans[c].status = "COMPLETED"
                 /\ q_ans[c].result
                 /\ q_ans[c].headers
                 /\ q_ans[c].status_code = q_ans[c].seen_resp.status_code
                 /\ q_ans[c].status_code # 0
                 /\ q_ans[c].error = "none"
           /\ q_ans[c].seen_meta.status = "FAILED"
              => /\ q_ans[c].status = "FAILED"
                 /\ q_ans[c].error # "none"
                 /\ q_ans[c].seen_resp = NoResp
                      => q_ans[c].error = "Processing failed"
                 /\ ~q_ans[c].result
           /\ q_ans[c].seen_meta.status \in {"PENDING", "PROCESSING"}
              => /\ q_ans[c].status = q_ans[c].seen_meta.status
                 /\ ~q_ans[c].result
                 /\ q_ans[c].status_code = 0
                 /\ q_ans[c].error = "none"
                 /\ ~q_ans[c].completed_at

\* a FAILED request polled before its error record was stored
C13_Witness ==
    \E c \in CIDs :
        /\ Answered(q_ans[c])
        /\ q_ans[c].status = "FAILED"
        /\ q_ans[c].seen_resp = NoResp
        /\ q_ans[c].error = "Processing failed"

\* C14: GET /response/{cid} for a request that is PENDING or PROCESSING is
\* answered with HTTP 202.
C14_StillProcessingIs202 ==
    \A c \in CIDs :
        (/\ Answered(q_ans[c])
         /\ q_ans[c].status \in {"PENDING", "PROCESSING"})
        => q_ans[c].http = 202

\* C15: every ResponseRecord under resp:{cid} has exactly one of result and
\* error, and has status_code exactly when it has result.
C15_ResultXorError ==
    \A c \in CIDs :
        resp[c] # NoResp
        => /\ ("result" \in resp[c].fields) # ("error" \in resp[c].fields)
           /\ ("status_code" \in resp[c].fields)
                 <=> ("result" \in resp[c].fields)

\* an error record stored by _mark_failed
C15_Witness ==
    \E c \in CIDs : "error" \in resp[c].fields /\ meta[c].status = "FAILED"

C17_MessageCarriesClientMetadata ==
    \A c \in CIDs :
        api_pc[c] = "publish"
        => /\ api_msg[c].payload = PayloadOf(c)
           /\ api_msg[c].retry_count = api_req[c].retry_count
           /\ api_msg[c].session_id = api_req[c].session_id
           /\ api_msg[c].partition_key = api_req[c].partition_key

PartitionIds == 0..(pm_config.partition_count - 1)

\* two successive _assign_partition calls with the same key agree
SameKeySamePartition ==
    (pm_last.key # "none" /\ pm_last'.key = pm_last.key)
    => pm_last'.partition = pm_last.partition

\* C18 as stated: for a fixed partition_count, whatever the strategy, every
\* computed partition lies in 0..partition_count-1 and two calls with the
\* same key give the same partition, on whichever worker and at whatever
\* time they are made.
C18_PartitionDependsOnKeyOnly ==
    [][/\ pm_last'.key # "none" => pm_last'.partition \in PartitionIds
       /\ SameKeySamePartition]_vars

\* C18, amended: the same, for the strategies hash, key and sticky.
C18_HashedPartitionDependsOnKeyOnly ==
    [][pm_config.strategy # "round_robin"
       => /\ pm_last'.key # "none" => pm_last'.partition \in PartitionIds
          /\ SameKeySamePartition]_vars

\* sha256("sess-X") mod 4 = 3, computed after the clock has moved
C18_Witness ==
    /\ pm_config.strategy = "sticky"
    /\ pm_config.partition_count = 4
    /\ now_ms > 0
    /\ pm_last = [key |-> "sess-X", partition |-> 3]

\* C19: worker w of W owns exactly the partitions p with p mod W = w; once
\* every worker 0..W-1 has been assigned, the owned sets are pairwise
\* disjoint and together are 0..N-1.
C19_OwnedSetsPartition ==
    /\ \A i \in Managers :
          pm_assigned[i]
          => worker_partitions[i] =
                {p \in PartitionIds : p % worker_count = i}
    /\ AllAssigned
         => /\ \A i, j \in Managers :
                  i # j => worker_partitions[i] \cap worker_partitions[j] = {}
            /\ UNION {worker_partitions[i] : i \in Managers} = PartitionIds

\* N = 4 spread over two workers: worker 0 owns {0, 2}
C19_Witness ==
    /\ AllAssigned
    /\ worker_count = 2
    /\ pm_config.partition_count = 4
    /\ worker_partitions[0] = {0, 2}
    /\ worker_partitions[1] = {1, 3}

\* the workers on which should_process_message(m) is true right now
Accepting(m) ==
    {i \in Managers :
        ShouldProcess(pm_config, worker_partitions[i], m, now_ms)}

\* C20 as stated: with partitioning enabled and every worker assigned, each
\* message that carries a session id is accepted by exactly one worker, and
\* two accepted messages with the same session id were accepted by the same
\* worker.
C20_OneWorkerPerSession ==
    /\ [](pm_config.enabled /\ AllAssigned
           => \A m \in PartitionMessages :
                 Truthy(m.session_id) => Cardinality(Accepting(m)) = 1)
    /\ [][(/\ pm_config.enabled
            /\ pm_last_accept.session_id # "none"
            /\ pm_last_accept'.session_id = pm_last_accept.session_id)
           => pm_last_accept'.worker_index = pm_last_accept.worker_index]_vars

\* C20, amended: the same for the strategies hash, key and sticky and for
\* messages that carry a session id and no partition key.
C20_OneWorkerPerSessionKey ==
    /\ [](/\ pm_config.enabled
           /\ pm_config.strategy # "round_robin"
           /\ AllAssigned
           => \A m \in PartitionMessages :
                 (Truthy(m.session_id) /\ ~Truthy(m.partition_key))
                 => Cardinality(Accepting(m)) = 1)
    /\ [][(/\ pm_config.enabled
            /\ pm_config.strategy # "round_robin"
            /\ pm_last_accept.session_id # "none"
            /\ pm_last_accept'.session_id = pm_last_accept.session_id
            /\ ~pm_last_accept.has_key
            /\ ~pm_last_accept'.has_key)
           => pm_last_accept'.worker_index = pm_last_accept.worker_index]_vars

\* of two workers over four partitions, worker 1 accepted a message keyed
\* by session "sess-X" (partition 3)
C20_Witness ==
    /\ pm_config.enabled
    /\ pm_config.strategy = "sticky"
    /\ pm_config.partition_count = 4
    /\ worker_count = 2
    /\ pm_last_accept =
          [session_id |-> "sess-X", has_key |-> FALSE, worker_index |-> 1]
    /\ Accepting([partition_key |-> "none", session_id |-> "sess-X"]) = {1}

\* the upstream request was sent
Forwarded(ev) == ev \in {"http_200", "http_500", "client_error", "timeout"}

\* the partition of message m under the deployment's configuration
PartitionOf(m) == GetPartitionForMessage(pm_config, m, now_ms)

\* C21: with partitioning enabled, a worker forwards a keyed message
\* upstream only if the message's partition is one of its own (partition p
\* belongs to the worker with index p mod W); a message of another worker's
\* partition is never forwarded by this worker.
C21_ForwardsOnlyOwnedPartition ==
    \A w \in Workers :
        (/\ pm_config.enabled
         /\ Forwarded(w_ev[w])
         /\ PartitionOf(w_msg[w]) # -1)
        => AssignedWorkerIndex(PartitionOf(w_msg[w]), worker_count)
              = WorkerIndex(w)

\* C22: a message the processor skips because its partition is not owned is
\* not an error: process returns a result with status 200, the handler
\* returns so that the delivery is acknowledged, and the handling publishes
\* no DLQ message and writes no FAILED state.
C22_SkipIsNotAnError ==
    \A w \in Workers :
        (HandlerEnded(w) /\ w_ev[w] = "partition_skip")
        => /\ ProcessorProcess(w_ev[w]) = Returned(200)
           /\ w_pc[w] = "done"
           /\ w_log[w].pub_dlq = 0
           /\ ~Wrote(w, "FAILED")

\* the enabled routes of the configuration that match the routed message
MatchingRoutes ==
    {i \in 1..Len(rt_config.routes) :
        /\ rt_config.routes[i].enabled
        /\ MatchRoute(rt_config.routes[i], rt_message)}

\* C23: whenever two enabled routes with distinct priorities both match the
\* message, route() selects a route, never the one of the two with the lower
\* priority, and the route it selects has at least the higher priority of
\* the two, wherever the two stand in the configuration.
C23_HigherPriorityWins ==
    rt_result.kind # "none" =>
        \A i, j \in MatchingRoutes :
            rt_config.routes[i].priority > rt_config.routes[j].priority
            => /\ rt_result.kind = "route"
               /\ rt_result.route # j
               /\ rt_config.routes[rt_result.route].priority
                     >= rt_config.routes[i].priority

\* the second route of the configuration was selected over the first, both
\* matching, because its priority is higher
C23_Witness ==
    /\ rt_result = [kind |-> "route", route |-> 2]
    /\ MatchingRoutes = {1, 2}
    /\ rt_config.routes[1].priority < rt_config.routes[2].priority
    /\ ~rt_config.routes[1].is_default
    /\ ~rt_config.routes[2].is_default

\* C24: a route marked is_default is selected only when no enabled
\* non-default route matches the message, whatever the priorities are.
C24_DefaultOnlyWhenNothingElseMatches ==
    (rt_result.kind = "route" /\ rt_config.routes[rt_result.route].is_default)
    => \A i \in MatchingRoutes : rt_config.routes[i].is_default

C26_SignalLeadsToDisconnect ==
    signalled ~> (lc_current = 0 /\ ~queue_running /\ ~queue_connected)

\* C27: on every driver at most one handler call is running at a time: the
\* next message's handler starts only after the previous one came back
C27_HandlersNeverOverlap == Cardinality(InFlight) <= 1

\* C28: a message whose handler returned is acknowledged; a message whose
\* handler raised is not acknowledged and is owed another delivery: it is
\* back with the queue for redelivery (or already being handled again)
C28_AckOrRedeliver ==
    \A m \in Msgs :
        delivery[m] # "inflight" =>
            /\ handler_outcome[m] = "return" => delivery[m] = "acked"
            /\ handler_outcome[m] = "raise" => delivery[m] = "ready"

\* C29: on a driver without a native dead letter queue (Redis Streams, Event
\* Hubs, MQTT) a message rejected with requeue = False is on the dead letter
\* queue once reject returned
C29_RejectedGoesToDlq ==
    (/\ driver \in {"redis", "azure_eventhubs", "mqtt"}
     /\ last_reject.id # 0
     /\ ~last_reject.requeue)
        => OnQueue(dlq, last_reject.id)

\* min(retry_delay_max, retry_delay_base * 2^n)
Backoff(n) ==
    IF RetryDelayBase * 2^n < RetryDelayMax
    THEN RetryDelayBase * 2^n ELSE RetryDelayMax

\* C30: when a handler has requeued a message for its n-th retry (the
\* requeued message carries retry_count = n), the message was published
\* with a delay of min(retry_delay_max, retry_delay_base * 2^n) seconds
C30_RetryIsDelayedByBackoff ==
    \A w \in Workers :
        (/\ w_pc[w] = "done"
         /\ w_clause[w] = "retryable"
         /\ w_log[w].pub_requests = 1)
        => w_log[w].delay = Backoff(w_log[w].republished.retry_count)

\* C31: when a handler has returned (so the consume loop acknowledges the
\* delivery), the request is COMPLETED with a ResponseRecord, or a retry copy
\* of it is on the request queue, or a copy of it is on the dead letter
\* queue, also when a publish reported failure
C31_NoSilentLoss ==
    \A w \in Workers :
        w_pc[w] = "done" =>
            \/ meta[cid(w)].status = "COMPLETED" /\ resp[cid(w)] # NoResp
            \/ OnQueue(requests, cid(w))
            \/ OnQueue(dlq, cid(w))

\* C32: under fair scheduling, with a broker and a state store that keep
\* working, a request that was answered 202 eventually is COMPLETED or FAILED
C32_AcceptedEventuallySettles ==
    \A c \in CIDs :
        (api_resp[c] = 202)
            ~> (meta[c].status \in {"COMPLETED", "FAILED"} \/ fault[c])

C34_HandlerNeverRaises ==
    DeliversDict(driver) => \A w \in Workers : w_pc[w] # "raised"

\* C35: every RequestState in the state store, whoever wrote it, carries
\* submitted_at (the submission time recorded at ingress) next to status and
\* updated_at
C35_StateHasSubmittedAt ==
    \A c \in CIDs : meta[c] # NoState => meta[c].submitted_at

\* a call of _handle_message is in flight
InFlightHandlers == {h \in Handlers : h_pc[h] = "running"}

\* C36: current_message is set exactly while a call of _handle_message is
\* in flight on the worker (it is not cleared while another call still
\* runs), and shutdown goes on to disconnect only when no call is in flight
\* or its 30 seconds are used up
C36_CurrentMessageTracksInFlight ==
    /\ (lc_current # 0) <=> (InFlightHandlers # {})
    /\ sd_pc["caller"] \in {"disconnect", "close", "done"}
          => (InFlightHandlers = {}
              \/ sd_slept["caller"] >= ShutdownWaitSeconds)

\* C37: when the matched route sets no method, the outbound request uses
\* the request's metadata.method or, when that is not set either, the
\* method configured for the endpoint
C37_RouteWithoutMethodKeepsMethod ==
    (/\ fw_out # "none"
     /\ fw_in.routing = "route"
     /\ fw_in.route_method = "none")
        => fw_out = Upper(IF fw_in.metadata_method # "none"
                          THEN fw_in.metadata_method
                          ELSE fw_in.endpoint_method)

\* C38: the message the processor routes, maps and partitions on is the
\* complete dequeued message: it has every top-level key of the message the
\* worker took off the queue (correlation_id, headers, metadata, payload,
\* timestamp)
C38_ProcessorSeesFullMessage ==
    \A w \in Workers :
        w_ev[w] # "none"
            => w_log[w].full_message = MessageKeys(w_msg[w])

\* the SessionInfo of session s is older than sticky_session_ttl
Expired(s) ==
    /\ pm_config.sticky_session_ttl # 0
    /\ sess_last_seen[s] # NotTracked
    /\ now_ms - sess_last_seen[s] > pm_config.sticky_session_ttl

=============================================================================
